---- MODULE Spec2Model ----
(***************************************************************************)
(* Chunked transcription pipeline of backend/audio_diarization.py:         *)
(* retry_with_backoff, transcribe_chunk, transcribe_chunks (single-worker  *)
(* ThreadPoolExecutor + as_completed), safe_extract_json validation and    *)
(* deduplication, adjust_timestamps_for_speed, merge_json_with_offset and  *)
(* the annotation assembly of process_diarization.                         *)
(*                                                                         *)
(* Spec is the pipeline of process_diarization.  The other specifications  *)
(* call one function on its own: SpecMerge (merge_json_with_offset),       *)
(* SpecDedup (deduplicate_entries), SpecExtract (safe_extract_json on      *)
(* response texts), SpecValidate (its validation on parsed objects),       *)
(* SpecSpeed (slow_audio_by_factor and adjust_timestamps_for_speed),       *)
(* SpecRoundTrip (the timestamp formatters and parsers), SpecAssemble     *)
(* (the annotation loop) and SpecRetry (retry_with_backoff with its        *)
(* delays).  Spec ends with the exit of the command-line run of __main__.  *)
(*                                                                         *)
(* utils/storage.py, StorageManager: SpecStatus (the status computed by    *)
(* list_transcriptions for the two collections), SpecAccess (assign,       *)
(* unassign, get_transcription, get_version_history) and SpecTimestamps    *)
(* (update_transcription_status and update_transcription as find_one and   *)
(* update_one steps of concurrent requests).                               *)
(*                                                                         *)
(* Representation.                                                         *)
(*   - A timestamp string "MM:SS.mmm" is the pair <<MM, SSmmm>> of its     *)
(*     minutes field and its seconds field in milliseconds ("01:05.120"    *)
(*     is <<1, 5120>>).  The seconds field may be 60000 ("00:60.000"),     *)
(*     which "%06.3f" prints when it rounds 59.9995 and above.             *)
(*   - A float number of seconds is an integer count of quarter            *)
(*     milliseconds, the resolution at which the products t * speed_factor *)
(*     (speed_factor in quarters) of millisecond values are exact.         *)
(*   - A timestamp "H:MM:SS.mmmmmm" is <<H, MM, SS>> with SS in quarter    *)
(*     milliseconds (six decimals print a quarter millisecond exactly).    *)
(*   - A text (a word, a response) is the sequence of its lexemes, each a  *)
(*     maximal run of characters of one class written as a string:         *)
(*     "hello world" is <<"hello", " ", "world">>, "" is <<>>.  The        *)
(*     patterns of re and the grammar of json.loads are stated on lexemes. *)
(*     In SpecExtract a string value read from a text stays the sequence   *)
(*     of its lexemes ("00:05.120" is <<"00", ":", "05.120">>).            *)
(*   - A JSON object is a record whose DOMAIN is its key set.              *)
(*   - A stored document is a record of the modelled fields; a field the   *)
(*     document does not have reads as Missing (None), a datetime that is  *)
(*     not set as NoTime, and datetime.now() values are 1, 2, ...          *)
(***************************************************************************)
EXTENDS Integers, Sequences, FiniteSets, TLC

\* ------------------------------------------------------------------ bounds
MaxChunks == 2
MaxEntries == 2
MaxRequests == 2
MaxCalls == 3

\* -------------------------------------------------------- program constants
AUDIO_CHUNKING_OFFSET == 100
max_retries == 5
max_workers == 1

\* quarter milliseconds per millisecond / per second
UnitsPerMs == 4
UnitsPerSecond == 1000 * UnitsPerMs

\* ------------------------------------------------------------ timestamps
\* a parse that drops the minutes field
timestamp_to_seconds_no_minutes(timestamp) ==
    timestamp[2] * UnitsPerMs

\* int(minutes) * 60 + float(rest)
timestamp_to_seconds(timestamp) ==
    timestamp[1] * 60 * UnitsPerSecond + timestamp[2] * UnitsPerMs

\* Values t (quarter ms, t % 4 = 2, i.e. x.xxx5 s) whose nearest IEEE-754
\* double, reduced mod 60, lies above the decimal tie, so that "%06.3f"
\* prints the upper millisecond; every other tie prints the lower one.
\* Tabulated from CPython for the products the model can form.
HalfMsRoundsUp ==
    {2, 6, 3998, 240002, 240018, 400002, 14400002, 172800002, 345599994, 345599998}

\* "%06.3f" % secs : secs rounded to the millisecond (may give 60000)
format_secs_3f(seconds, secs) ==
    LET base == secs \div UnitsPerMs
        r == secs % UnitsPerMs
    IN  IF 2 * r < UnitsPerMs THEN base
        ELSE IF 2 * r > UnitsPerMs THEN base + 1
        ELSE IF seconds \in HalfMsRoundsUp THEN base + 1 ELSE base

\* minutes = int(seconds // 60); secs = seconds % 60; f"{minutes:02d}:{secs:06.3f}"
seconds_to_timestamp(seconds) ==
    LET minutes == seconds \div (60 * UnitsPerSecond)
        secs == seconds % (60 * UnitsPerSecond)
    IN  <<minutes, format_secs_3f(seconds, secs)>>

\* ------------------------------------------- Response Repair & Validator
\* None, written as an f-string formats it
None == <<"None">>

\* item.get("Text") or item.get("text"): Text when it is present and
\* non-empty, else whatever get("text") gives (None when absent)
legacy_word(item) ==
    IF "Text" \in DOMAIN item /\ item.Text # <<>> /\ item.Text # None THEN item.Text
    ELSE IF "text" \in DOMAIN item THEN item.text
    ELSE None

\* validation that drops the entries without "word"
RECURSIVE validate_items_word_only(_)
validate_items_word_only(json_data) ==
    IF json_data = <<>> THEN <<>>
    ELSE LET item == Head(json_data)
             rest == validate_items_word_only(Tail(json_data))
         IN  IF ~ ({"start", "end"} \subseteq DOMAIN item) THEN rest
             ELSE IF "word" \notin DOMAIN item THEN rest
             ELSE <<item>> \o rest

\* the validation loop of safe_extract_json (valid_items)
RECURSIVE validate_items(_)
validate_items(json_data) ==
    IF json_data = <<>> THEN <<>>
    ELSE LET item == Head(json_data)
             rest == validate_items(Tail(json_data))
         IN  IF ~ ({"start", "end"} \subseteq DOMAIN item) THEN rest
             ELSE IF "word" \notin DOMAIN item
                     /\ ("Text" \in DOMAIN item \/ "text" \in DOMAIN item)
                  THEN <<item @@ [word |-> legacy_word(item)]>> \o rest
             ELSE IF "word" \notin DOMAIN item THEN rest
             ELSE <<item>> \o rest

\* deduplication that drops every later entry of a seen pair
RECURSIVE dedup_loop_drop_later(_, _, _)
dedup_loop_drop_later(items, seen, deduplicated) ==
    IF items = <<>> THEN deduplicated
    ELSE LET item == Head(items)
             key == <<item.start, item.end>>
         IN  IF key \notin seen
             THEN dedup_loop_drop_later(Tail(items), seen \cup {key}, Append(deduplicated, item))
             ELSE dedup_loop_drop_later(Tail(items), seen, deduplicated)

\* next((x for x in deduplicated if x['start'] == ... and x['end'] == ...))
\* (the index of x)
existing_index(deduplicated, item) ==
    CHOOSE j \in 1..Len(deduplicated) :
        /\ deduplicated[j].start = item.start
        /\ deduplicated[j].end = item.end
        /\ \A k \in 1..(j - 1) :
              ~ (deduplicated[k].start = item.start /\ deduplicated[k].end = item.end)

\* the for loop of deduplicate_entries;
\* existing['word'] = f"{existing['word']} {item['word']}"
RECURSIVE dedup_loop(_, _, _)
dedup_loop(items, seen, deduplicated) ==
    IF items = <<>> THEN deduplicated
    ELSE LET item == Head(items)
             key == <<item.start, item.end>>
         IN  IF key \notin seen
             THEN dedup_loop(Tail(items), seen \cup {key}, Append(deduplicated, item))
             ELSE LET j == existing_index(deduplicated, item)
                  IN  IF deduplicated[j].word # item.word
                      THEN dedup_loop(Tail(items), seen,
                               [deduplicated EXCEPT ![j].word = @ \o <<" ">> \o item.word])
                      ELSE dedup_loop(Tail(items), seen, deduplicated)

deduplicate_entries(items) == dedup_loop(items, {}, <<>>)

\* ------------------------------------------------ response text, lexeme-wise
\* Character classes of the lexemes a response text is made of.  The
\* structural characters ` " [ ] { } , : and every whitespace or control
\* character are lexemes of their own (Fence is the fence); a run of
\* digits, a run digits.digits and a run of letters are one lexeme each.
\* the fence of three backquotes
Fence == "~~~"
Whitespace == {" ", "\n", "\t", "\r", "\f"}
JsonWhitespace == {" ", "\n", "\t", "\r"}
\* ord(char) < 32 and char not in '\n\r\t'
StrippedControlChars == {"\f"}
\* characters json.loads rejects inside a string (strict mode)
StringControlChars == {"\n", "\t", "\r", "\f"}
\* \d+
DigitRuns == {"00"}
\* \d+\.\d+
DecimalRuns == {"01.000", "02.000", "03.000", "05.120", "05.450", "0.95"}
\* the decimal runs that are JSON numbers (no leading zero)
JsonNumbers == {"0.95"}

Min(S) == CHOOSE x \in S : \A y \in S : x <= y
Max(S) == CHOOSE x \in S : \A y \in S : x >= y

\* last position of the whitespace run that starts at i (i - 1 when s[i]
\* is no whitespace): the greedy match of \s*
ws_run_end(s, i) ==
    Max({j \in (i - 1)..Len(s) : \A k \in i..j : s[k] \in Whitespace})

has_newline(s, i, j) == \E k \in i..j : s[k] = "\n"

\* parts[lo] \o ... \o parts[hi]
RECURSIVE concat_parts(_, _, _)
concat_parts(parts, lo, hi) ==
    IF lo > hi THEN <<>>
    ELSE IF lo = hi THEN parts[lo]
    ELSE LET mid == (lo + hi) \div 2
         IN  concat_parts(parts, lo, mid) \o concat_parts(parts, mid + 1, hi)

\* s with the lexemes x written after every position of M
insert_after(s, M, x) ==
    concat_parts([n \in 1..Len(s) |-> <<s[n]>> \o (IF n \in M THEN x ELSE <<>>)],
                 1, Len(s))

\* s without the positions of D
delete_positions(s, D) ==
    concat_parts([n \in 1..Len(s) |-> IF n \in D THEN <<>> ELSE <<s[n]>>], 1, Len(s))

\* str.strip()
RECURSIVE strip(_)
strip(s) ==
    IF s = <<>> THEN s
    ELSE IF Head(s) \in Whitespace THEN strip(Tail(s))
    ELSE IF s[Len(s)] \in Whitespace THEN strip(SubSeq(s, 1, Len(s) - 1))
    ELSE s

\* re.search(r'```json\s*(.*?)```') or else re.search(r'```json\s*(.*)'):
\* the start positions of an opening fence
fence_positions(content) ==
    {i \in 1..(Len(content) - 1) : content[i] = Fence /\ content[i + 1] = "json"}

\* json_match.group(1).strip(): the text from the first opening fence to
\* the next fence, or to the end when no fence follows
json_block(content) ==
    LET i == Min(fence_positions(content))
        closing == {j \in (i + 2)..Len(content) : content[j] = Fence}
    IN  strip(SubSeq(content, i + 2,
                     IF closing = {} THEN Len(content) ELSE Min(closing) - 1))

\* re.sub(r'(\d+\.\d+),(\s*\n)', r'\1",\2', json_str)
close_quote_before_comma(json_str) ==
    insert_after(json_str,
        {k \in 1..(Len(json_str) - 1) :
            /\ json_str[k] \in DecimalRuns
            /\ json_str[k + 1] = ","
            /\ has_newline(json_str, k + 2, ws_run_end(json_str, k + 2))},
        <<"\"">>)

\* re.sub(r'(\d+\.\d+)(\s*\n\s*"end")', r'\1"\2', json_str)
close_quote_before_end(json_str) ==
    insert_after(json_str,
        {k \in 1..Len(json_str) :
            LET e == ws_run_end(json_str, k + 1)
            IN  /\ json_str[k] \in DecimalRuns
                /\ has_newline(json_str, k + 1, e)
                /\ e + 3 <= Len(json_str)
                /\ json_str[e + 1] = "\""
                /\ json_str[e + 2] = "end"
                /\ json_str[e + 3] = "\""},
        <<"\"">>)

\* ''.join(char for char in json_str if ord(char) >= 32 or char in '\n\r\t')
remove_control_characters(json_str) ==
    delete_positions(json_str,
        {k \in 1..Len(json_str) : json_str[k] \in StrippedControlChars})

ends_with(json_str, x) == json_str # <<>> /\ json_str[Len(json_str)] = x
starts_with(json_str, x) == json_str # <<>> /\ json_str[1] = x

\* if not json_str.endswith(']'): cut after the last '}' and add '\n]'
close_truncated_array(json_str) ==
    LET braces == {k \in 1..Len(json_str) : json_str[k] = "}"}
    IN  IF ends_with(json_str, "]") \/ braces = {} THEN json_str
        ELSE SubSeq(json_str, 1, Max(braces)) \o <<"\n", "]">>

\* if not (startswith('[') and endswith(']')): json_str = f"[{json_str}]"
wrap_in_array(json_str) ==
    IF starts_with(json_str, "[") /\ ends_with(json_str, "]") THEN json_str
    ELSE <<"[">> \o json_str \o <<"]">>

\* re.sub(r',\s*([\]}])', r'\1', json_str)
remove_trailing_commas(json_str) ==
    delete_positions(json_str,
        UNION { k..ws_run_end(json_str, k + 1) :
                  k \in {c \in 1..(Len(json_str) - 1) :
                            LET e == ws_run_end(json_str, c + 1)
                            IN  /\ json_str[c] = ","
                                /\ e + 1 <= Len(json_str)
                                /\ json_str[e + 1] \in {"]", "}"}} })

\* the text json.loads is first called on (lines 83-109)
repaired_json_str(content) ==
    remove_trailing_commas(
        wrap_in_array(
            close_truncated_array(
                remove_control_characters(
                    close_quote_before_end(
                        close_quote_before_comma(json_block(content)))))))

\* re.sub(r'"(start|end)":\s*"(\d+:\d+\.\d+)([,\n])', r'"\1": "\2"\3', json_str)
\* positions of the opening quote of a match, and the rewritten text
aggressive_matches(json_str) ==
    {k \in 1..Len(json_str) :
        LET e == ws_run_end(json_str, k + 4)
        IN  /\ k + 8 <= Len(json_str)
            /\ e + 5 <= Len(json_str)
            /\ json_str[k] = "\""
            /\ json_str[k + 1] \in {"start", "end"}
            /\ json_str[k + 2] = "\""
            /\ json_str[k + 3] = ":"
            /\ json_str[e + 1] = "\""
            /\ json_str[e + 2] \in DigitRuns
            /\ json_str[e + 3] = ":"
            /\ json_str[e + 4] \in DecimalRuns
            /\ json_str[e + 5] \in {",", "\n"}}

aggressive_repair(json_str) ==
    LET M == aggressive_matches(json_str)
        \* \s* is replaced by one space, a quote is written after \2
        spaces == UNION {(k + 4)..ws_run_end(json_str, k + 4) : k \in M}
        colons == {k + 3 : k \in M}
        decimals == {ws_run_end(json_str, k + 4) + 4 : k \in M}
    IN  concat_parts(
            [n \in 1..Len(json_str) |->
                (IF n \in spaces THEN <<>> ELSE <<json_str[n]>>)
                \o (IF n \in colons THEN <<" ">> ELSE <<>>)
                \o (IF n \in decimals THEN <<"\"">> ELSE <<>>)],
            1, Len(json_str))

\* ---------------------------------------------------------- json.loads
\* The decoder on the JSON texts the backend contract produces: an array
\* of objects whose values are strings or numbers.  A string value is the
\* sequence of its lexemes, a number is kept as its literal.
ParseFailed == [ok |-> FALSE]

\* first position at or after i that holds no JSON whitespace
skip_whitespace(s, i) ==
    Min({j \in i..(Len(s) + 1) : j = Len(s) + 1 \/ s[j] \notin JsonWhitespace})

at(s, i, x) == i <= Len(s) /\ s[i] = x

\* a string that opens at i
scan_string(s, i) ==
    LET closing == {j \in (i + 1)..Len(s) : s[j] = "\""}
    IN  IF ~ at(s, i, "\"") \/ closing = {} THEN ParseFailed
        ELSE LET j == Min(closing)
             IN  IF \E k \in (i + 1)..(j - 1) : s[k] \in StringControlChars
                 THEN ParseFailed
                 ELSE [ok |-> TRUE, pos |-> j + 1, val |-> SubSeq(s, i + 1, j - 1)]

\* the value of a member: a string or a number
scan_value(s, i) ==
    IF i <= Len(s) /\ s[i] \in JsonNumbers
    THEN [ok |-> TRUE, pos |-> i + 1, val |-> <<s[i]>>]
    ELSE scan_string(s, i)

\* a key that is not a single lexeme is none of the keys the validator
\* looks at; it is recorded under one name
key_name(val) == IF Len(val) = 1 THEN val[1] ELSE "other"

\* the members of an object from position i on, added to obj (a repeated
\* key keeps its last value)
RECURSIVE parse_members(_, _, _)
parse_members(s, i, obj) ==
    LET key == scan_string(s, i)
    IN  IF ~ key.ok THEN ParseFailed
        ELSE LET c == skip_whitespace(s, key.pos)
             IN  IF ~ at(s, c, ":") THEN ParseFailed
                 ELSE LET v == scan_value(s, skip_whitespace(s, c + 1))
                      IN  IF ~ v.ok THEN ParseFailed
                          ELSE LET n == skip_whitespace(s, v.pos)
                                   added == (key_name(key.val) :> v.val) @@ obj
                               IN  IF at(s, n, ",")
                                   THEN parse_members(s, skip_whitespace(s, n + 1), added)
                                   ELSE IF at(s, n, "}")
                                   THEN [ok |-> TRUE, pos |-> n + 1, val |-> added]
                                   ELSE ParseFailed

\* an object that opens at i
parse_object(s, i) ==
    IF ~ at(s, i, "{") THEN ParseFailed
    ELSE LET j == skip_whitespace(s, i + 1)
         IN  IF at(s, j, "}") THEN [ok |-> TRUE, pos |-> j + 1, val |-> <<>>]
             ELSE parse_members(s, j, <<>>)

\* the elements of an array from position i on, appended to arr
RECURSIVE parse_elements(_, _, _)
parse_elements(s, i, arr) ==
    LET item == parse_object(s, i)
    IN  IF ~ item.ok THEN ParseFailed
        ELSE LET n == skip_whitespace(s, item.pos)
             IN  IF at(s, n, ",")
                 THEN parse_elements(s, skip_whitespace(s, n + 1), Append(arr, item.val))
                 ELSE IF at(s, n, "]")
                 THEN [ok |-> TRUE, pos |-> n + 1, val |-> Append(arr, item.val)]
                 ELSE ParseFailed

\* json.loads(json_str): ok is FALSE for json.JSONDecodeError
json_loads(json_str) ==
    LET i == skip_whitespace(json_str, 1)
        j == skip_whitespace(json_str, i + 1)
        arr == IF ~ at(json_str, i, "[") THEN ParseFailed
               ELSE IF at(json_str, j, "]") THEN [ok |-> TRUE, pos |-> j + 1, val |-> <<>>]
               ELSE parse_elements(json_str, j, <<>>)
    IN  IF arr.ok /\ skip_whitespace(json_str, arr.pos) = Len(json_str) + 1
        THEN [ok |-> TRUE, val |-> arr.val]
        ELSE ParseFailed

\* lines 73-128 of safe_extract_json: the content record its validation
\* works on
load_json_block(content) ==
    IF fence_positions(content) = {} THEN [kind |-> "nofence"]
    ELSE LET json_str == repaired_json_str(content)
             first == json_loads(json_str)
             second == json_loads(aggressive_repair(json_str))
         IN  IF first.ok THEN [kind |-> "array", items |-> first.val]
             ELSE IF second.ok THEN [kind |-> "array", items |-> second.val]
             ELSE [kind |-> "unparseable"]

\* A backend response text, after fence extraction, repair and json.loads
\* (the value of load_json_block): kind "nofence" (no fenced json block),
\* "unparseable" (json.loads fails after the aggressive repair) or "array"
\* with the parsed objects.
\* raising only for a missing block or unparseable text
safe_extract_json_raises_unless_array(content) ==
    content.kind # "array"

\* the raise ValueError(...) exits of safe_extract_json
safe_extract_json_raises(content) ==
    \/ content.kind # "array"
    \/ validate_items(content.items) = <<>>

\* the value safe_extract_json returns when it does not raise
safe_extract_json(content) ==
    deduplicate_entries(validate_items(content.items))

\* ---------------------------------------------------- Timestamp Normalizer
\* start_seconds * speed_factor, speed_factor given in quarters
adjust_entry(entry, speed_factor) ==
    [entry EXCEPT
        !.start = seconds_to_timestamp((timestamp_to_seconds(entry.start) * speed_factor) \div 4),
        !.end = seconds_to_timestamp((timestamp_to_seconds(entry.end) * speed_factor) \div 4)]

adjust_timestamps_for_speed(json_data, speed_factor) ==
    [k \in 1..Len(json_data) |-> adjust_entry(json_data[k], speed_factor)]

\* ------------------------------------------------------------ Chunk Merger
\* sorted(data.items(), key=lambda x: x[0]); data is the dict in insertion
\* order, a sequence of <<index, json_array>> with distinct indices
insertion_order_items(data) == data

RECURSIVE sorted_items(_)
sorted_items(data) ==
    IF data = <<>> THEN <<>>
    ELSE LET m == CHOOSE j \in 1..Len(data) : \A k \in 1..Len(data) : data[j][1] <= data[k][1]
         IN  <<data[m]>> \o sorted_items(SubSeq(data, 1, m - 1) \o SubSeq(data, m + 1, Len(data)))

\* shift that leaves "end" where it was
shift_entry_start_only(entry, offset_seconds) ==
    [entry EXCEPT
        !.start = seconds_to_timestamp(timestamp_to_seconds(entry.start) + offset_seconds)]

shift_entry(entry, offset_seconds) ==
    [entry EXCEPT
        !.start = seconds_to_timestamp(timestamp_to_seconds(entry.start) + offset_seconds),
        !.end = seconds_to_timestamp(timestamp_to_seconds(entry.end) + offset_seconds)]

\* merge that shifts every chunk by time_offset, not by i * time_offset
RECURSIVE merge_loop_same_offset(_, _)
merge_loop_same_offset(sorted_data, time_offset) ==
    IF sorted_data = <<>> THEN <<>>
    ELSE LET json_array == Head(sorted_data)[2]
             offset_seconds == time_offset * UnitsPerSecond
         IN  [k \in 1..Len(json_array) |-> shift_entry(json_array[k], offset_seconds)]
             \o merge_loop_same_offset(Tail(sorted_data), time_offset)

RECURSIVE merge_loop(_, _)
merge_loop(sorted_data, time_offset) ==
    IF sorted_data = <<>> THEN <<>>
    ELSE LET i == Head(sorted_data)[1]
             json_array == Head(sorted_data)[2]
             offset_seconds == i * time_offset * UnitsPerSecond
         IN  [k \in 1..Len(json_array) |-> shift_entry(json_array[k], offset_seconds)]
             \o merge_loop(Tail(sorted_data), time_offset)

merge_json_with_offset(data, time_offset) ==
    merge_loop(sorted_items(data), time_offset)

\* ------------------------------------------------------ Annotation Assembler
\* hours = int(seconds // 3600); minutes = int((seconds % 3600) // 60); secs = seconds % 60
format_timestamp_precise(seconds) ==
    << seconds \div (3600 * UnitsPerSecond),
       (seconds % (3600 * UnitsPerSecond)) \div (60 * UnitsPerSecond),
       seconds % (60 * UnitsPerSecond) >>

\* the parser of process_diarization: three parts are
\* float(parts[0]) * 3600 + float(parts[1]) * 60 + float(parts[2]),
\* two parts are float(parts[0]) * 60 + float(parts[1])
parse_time_parts(time) ==
    IF Len(time) = 3
    THEN time[1] * 3600 * UnitsPerSecond + time[2] * 60 * UnitsPerSecond + time[3]
    ELSE time[1] * 60 * UnitsPerSecond + time[2] * UnitsPerMs

\* assembly that emits the end as it was reported
annotation_entry_unclamped(word_data, duration) ==
    [start |-> format_timestamp_precise(parse_time_parts(word_data.start)),
     end |-> format_timestamp_precise(parse_time_parts(word_data.end)),
     Transcription |-> <<word_data.word>>]

\* assembly that clamps the start to the duration as well
annotation_entry_start_clamped(word_data, duration) ==
    LET start_seconds == parse_time_parts(word_data.start)
        end_seconds == parse_time_parts(word_data.end)
    IN  [start |-> format_timestamp_precise(
                      IF start_seconds > duration THEN duration ELSE start_seconds),
         end |-> format_timestamp_precise(
                      IF end_seconds > duration THEN duration ELSE end_seconds),
         Transcription |-> <<word_data.word>>]

\* the body of the loop over all_words (lines 819-853)
annotation_entry(word_data, audio_duration) ==
    LET start_seconds == parse_time_parts(word_data.start)
        end_seconds == parse_time_parts(word_data.end)
        clamped == IF end_seconds > audio_duration THEN audio_duration ELSE end_seconds
    IN  [start |-> format_timestamp_precise(start_seconds),
         end |-> format_timestamp_precise(clamped),
         Transcription |-> <<word_data.word>>]

\* assembly that leaves out a word that starts before the word in front of it
build_annotations_skip_unordered(words, duration) ==
    LET kept(k) == \/ k = 1
                   \/ parse_time_parts(words[k - 1].start) <= parse_time_parts(words[k].start)
        F[k \in 0..Len(words)] ==
            IF k = 0 THEN <<>>
            ELSE IF kept(k) THEN Append(F[k - 1], annotation_entry(words[k], duration))
                 ELSE F[k - 1]
    IN  F[Len(words)]

build_annotations(all_words, audio_duration) ==
    [k \in 1..Len(all_words) |-> annotation_entry(all_words[k], audio_duration)]

\* ---------------------------------------------------------------- inputs
\* Objects the backend may put in its JSON array: two well-formed entries
\* (start < end) 1 ms apart, and one without "end".
Items ==
    { [start |-> <<0, 1>>, end |-> <<0, 3>>, word |-> <<"a">>],
      [start |-> <<0, 2>>, end |-> <<0, 4>>, word |-> <<"b">>],
      [start |-> <<0, 1>>, word |-> <<"a">>] }

RECURSIVE SeqsUpTo(_, _)
SeqsUpTo(S, n) ==
    IF n = 0 THEN {<<>>}
    ELSE LET shorter == SeqsUpTo(S, n - 1)
         IN  shorter \cup {Append(q, x) : q \in shorter, x \in S}

Contents ==
    {[kind |-> "nofence"], [kind |-> "unparseable"]}
    \cup {[kind |-> "array", items |-> q] : q \in SeqsUpTo(Items, MaxEntries)}

\* speed_factor in quarters: 0.25, 0.5, 0.75, 1.0
SpeedFactors == {1, 2, 3, 4}

\* len(audio) / 1000.0 for assets of 50 s, 150 s, 250 s, ...
Durations == {(100 * k + 50) * UnitsPerSecond : k \in 0..(MaxChunks - 1)}

\* split_audio(audio_uri): chunk indices 0..n-1 covering the asset
split_audio(duration) ==
    0..(((duration + AUDIO_CHUNKING_OFFSET * UnitsPerSecond - 1)
            \div (AUDIO_CHUNKING_OFFSET * UnitsPerSecond)) - 1)

\* ------------------------------------------------------------------ state
VARIABLES
    audio_duration,  \* len(audio) / 1000.0
    slow_audio,      \* parameter of process_diarization
    speed_factor,    \* parameter of process_diarization, in quarters
    pc,              \* position of the thread running process_diarization
    submitted,       \* number of executor.submit calls made
    queue,           \* the executor's work queue (chunk indices, FIFO)
    worker,          \* worker thread -> chunk index it runs, or NoTask
    task,            \* chunk index -> position of its transcribe_chunk call
    attempt,         \* chunk index -> loop variable of retry_with_backoff (0 outside the loop)
    tmp_file,        \* chunk index -> the slowed temporary file exists
    ret,             \* chunk index -> json_data returned by transcribe_chunk
    results,         \* the results dict, in insertion order
    yielded,         \* futures already yielded by as_completed
    exc,             \* future.result() raised in the collection loop
    all_words,       \* the merged transcript (get_segments)
    annotations,     \* annotations of the TranscriptionRecord
    output_written,  \* save_json was reached
    exit_status,     \* exit status of a command-line run, NoStatus while it runs
    traceback_printed, \* traceback.print_exc() was reached
    document,        \* StorageManager: the stored transcription document
    requests,        \* StorageManager: request -> the update call it is in
    now,             \* StorageManager: datetime.now() values handed out so far
    response,        \* StorageManager: the last get_* call and what it returned
    fn_pc,           \* a function called on its own: "unused", "called", "returned"
    fn_args,         \* its arguments
    fn_result        \* its return value

vars == <<audio_duration, slow_audio, speed_factor, pc, submitted, queue,
          worker, task, attempt, tmp_file, ret, results, yielded,
          exc, all_words, annotations, output_written, exit_status,
          traceback_printed, document, requests, now, response,
          fn_pc, fn_args, fn_result>>

storage_vars == <<document, requests, now, response>>

NoTask == 0 - 1
NoStatus == 0 - 1

\* doc.get(key) of a key the document does not have (None)
Missing == "(missing)"
\* a datetime field that is not set
NoTime == 0
RequestIds == 1..MaxRequests

\* no StorageManager call is made
StorageUnused ==
    /\ document = [assigned_user_id |-> Missing, manual_status |-> Missing,
                   done_at |-> NoTime, completed_at |-> NoTime]
    /\ requests = [r \in RequestIds |-> [pc |-> "idle", update_fields |-> <<>>]]
    /\ now = 0
    /\ response = [call |-> "none"]
ChunkIds == 0..(MaxChunks - 1)
\* a pool one thread wider
Workers_one_more == 1..(max_workers + 1)
Workers == 1..max_workers
Finished == {"returned", "raised_backend", "raised_parse"}
chunks_dict == split_audio(audio_duration)

Init ==
    /\ audio_duration \in Durations
    /\ slow_audio \in BOOLEAN
    /\ speed_factor \in (IF slow_audio THEN SpeedFactors ELSE {2})
    /\ pc = "start"
    /\ submitted = 0
    /\ queue = <<>>
    /\ worker = [w \in Workers |-> NoTask]
    /\ task = [i \in ChunkIds |-> "none"]
    /\ attempt = [i \in ChunkIds |-> 0]
    /\ tmp_file = [i \in ChunkIds |-> FALSE]
    /\ ret = [i \in ChunkIds |-> <<>>]
    /\ results = <<>>
    /\ yielded = {}
    /\ exc = FALSE
    /\ all_words = <<>>
    /\ annotations = <<>>
    /\ output_written = FALSE
    /\ exit_status = NoStatus
    /\ traceback_printed = FALSE
    /\ StorageUnused
    /\ fn_pc = "unused"
    /\ fn_args = <<>>
    /\ fn_result = <<>>

\* --------------------------------------------------------- transcribe_chunk
\* Entry of transcribe_chunk up to the first call_model: with slow_audio the
\* temporary file of slow_audio_by_factor is created (temp_file_created).
enter_transcribe_chunk(idx) ==
    /\ task' = [task EXCEPT ![idx] = "ready"]
    /\ attempt' = [attempt EXCEPT ![idx] = 0]
    /\ tmp_file' = [tmp_file EXCEPT ![idx] = slow_audio]

\* transcribe_chunk is left (return or raise): its locals are gone and the
\* pool thread that ran it, if any, is idle again
leave_transcribe_chunk(idx) ==
    /\ attempt' = [attempt EXCEPT ![idx] = 0]
    /\ worker' = [w \in Workers |-> IF worker[w] = idx THEN NoTask ELSE worker[w]]

\* retry_with_backoff: func(*args, **kwargs) is entered
CallModel(idx) ==
    /\ task[idx] = "ready"
    /\ task' = [task EXCEPT ![idx] = "calling"]
    /\ UNCHANGED <<storage_vars, exit_status, traceback_printed, fn_pc, fn_args, fn_result, audio_duration, slow_audio, speed_factor, pc, submitted, queue,
                   worker, attempt, tmp_file, ret, results, yielded, exc,
                   all_words, annotations, output_written>>

\* retry loop that gives up one failure late (attempt == max_retries)
ModelRaises_one_more(idx) ==
    /\ task[idx] = "calling"
    /\ IF attempt[idx] = max_retries
       THEN /\ task' = [task EXCEPT ![idx] = "raised_backend"]
            /\ leave_transcribe_chunk(idx)
       ELSE /\ task' = [task EXCEPT ![idx] = "sleeping"]
            /\ UNCHANGED <<worker, attempt>>
    /\ UNCHANGED <<storage_vars, exit_status, traceback_printed, fn_pc, fn_args, fn_result, audio_duration, slow_audio, speed_factor, pc, submitted, queue,
                   tmp_file, ret, results, yielded, exc,
                   all_words, annotations, output_written>>

\* a retry loop whose sleep hands the pool thread back to the executor
ModelRaises_release_worker(idx) ==
    /\ task[idx] = "calling"
    /\ IF attempt[idx] = max_retries - 1
       THEN /\ task' = [task EXCEPT ![idx] = "raised_backend"]
            /\ leave_transcribe_chunk(idx)
       ELSE /\ task' = [task EXCEPT ![idx] = "sleeping"]
            /\ worker' = [w \in Workers |-> IF worker[w] = idx THEN NoTask ELSE worker[w]]
            /\ UNCHANGED attempt
    /\ UNCHANGED <<storage_vars, exit_status, traceback_printed, fn_pc, fn_args, fn_result, audio_duration, slow_audio, speed_factor, pc, submitted, queue,
                   tmp_file, ret, results, yielded, exc,
                   all_words, annotations, output_written>>

\* the backend call raises: on the last attempt the exception leaves
\* retry_with_backoff and transcribe_chunk (nothing below line 708 runs),
\* otherwise the thread sleeps
ModelRaises(idx) ==
    /\ task[idx] = "calling"
    /\ IF attempt[idx] = max_retries - 1
       THEN /\ task' = [task EXCEPT ![idx] = "raised_backend"]
            /\ leave_transcribe_chunk(idx)
       ELSE /\ task' = [task EXCEPT ![idx] = "sleeping"]
            /\ UNCHANGED <<worker, attempt>>
    /\ UNCHANGED <<storage_vars, exit_status, traceback_printed, fn_pc, fn_args, fn_result, audio_duration, slow_audio, speed_factor, pc, submitted, queue,
                   tmp_file, ret, results, yielded, exc,
                   all_words, annotations, output_written>>

\* time.sleep(total_delay) returns: next iteration of the retry loop
EndSleep(idx) ==
    /\ task[idx] = "sleeping"
    /\ task' = [task EXCEPT ![idx] = "ready"]
    /\ attempt' = [attempt EXCEPT ![idx] = @ + 1]
    /\ UNCHANGED <<storage_vars, exit_status, traceback_printed, fn_pc, fn_args, fn_result, audio_duration, slow_audio, speed_factor, pc, submitted, queue,
                   worker, tmp_file, ret, results, yielded, exc,
                   all_words, annotations, output_written>>

\* a transcribe_chunk whose retry loop also covers safe_extract_json: a
\* response that cannot be used sends the chunk back to the backoff sleep
ModelReturns_retry_parse(idx, content) ==
    /\ task[idx] = "calling"
    /\ IF safe_extract_json_raises(content)
       THEN /\ task' = [task EXCEPT ![idx] =
                           IF attempt[idx] = max_retries - 1 THEN "raised_parse" ELSE "sleeping"]
            /\ IF attempt[idx] = max_retries - 1
               THEN leave_transcribe_chunk(idx)
               ELSE UNCHANGED <<worker, attempt>>
            /\ UNCHANGED <<ret, tmp_file>>
       ELSE LET json_data == safe_extract_json(content)
            IN  /\ ret' = [ret EXCEPT ![idx] =
                              IF slow_audio
                              THEN adjust_timestamps_for_speed(json_data, speed_factor)
                              ELSE json_data]
                /\ tmp_file' = [tmp_file EXCEPT ![idx] = FALSE]
                /\ task' = [task EXCEPT ![idx] = "returned"]
                /\ leave_transcribe_chunk(idx)
    /\ UNCHANGED <<storage_vars, exit_status, traceback_printed, fn_pc, fn_args, fn_result, audio_duration, slow_audio, speed_factor, pc, submitted, queue,
                   results, yielded, exc,
                   all_words, annotations, output_written>>

\* the backend call returns a response; lines 711-731: safe_extract_json,
\* adjust_timestamps_for_speed when slow_audio, os.unlink of the temporary
\* file, return idx, json_data
ModelReturns(idx, content) ==
    /\ task[idx] = "calling"
    /\ IF safe_extract_json_raises(content)
       THEN /\ task' = [task EXCEPT ![idx] = "raised_parse"]
            /\ UNCHANGED <<ret, tmp_file>>
       ELSE LET json_data == safe_extract_json(content)
            IN  /\ ret' = [ret EXCEPT ![idx] =
                              IF slow_audio
                              THEN adjust_timestamps_for_speed(json_data, speed_factor)
                              ELSE json_data]
                /\ tmp_file' = [tmp_file EXCEPT ![idx] = FALSE]
                /\ task' = [task EXCEPT ![idx] = "returned"]
    /\ leave_transcribe_chunk(idx)
    /\ UNCHANGED <<storage_vars, exit_status, traceback_printed, fn_pc, fn_args, fn_result, audio_duration, slow_audio, speed_factor, pc, submitted, queue,
                   results, yielded, exc,
                   all_words, annotations, output_written>>

\* ------------------------------------------------ process_diarization thread
\* process_diarization -> get_segments -> transcribe_with_gemini: an asset of
\* at most AUDIO_CHUNKING_OFFSET seconds calls transcribe_chunk(0, ...) in
\* this thread, a longer one enters transcribe_chunks
Start ==
    /\ pc = "start"
    /\ IF audio_duration <= AUDIO_CHUNKING_OFFSET * UnitsPerSecond
       THEN /\ pc' = "direct"
            /\ enter_transcribe_chunk(0)
       ELSE /\ pc' = "submit"
            /\ UNCHANGED <<task, attempt, tmp_file>>
    /\ UNCHANGED <<storage_vars, exit_status, traceback_printed, fn_pc, fn_args, fn_result, audio_duration, slow_audio, speed_factor, submitted, queue,
                   worker, ret, results, yielded, exc,
                   all_words, annotations, output_written>>

\* the direct transcribe_chunk call is over
DirectReturn ==
    /\ pc = "direct"
    /\ task[0] \in Finished
    /\ IF task[0] = "returned"
       THEN /\ all_words' = ret[0]
            /\ pc' = "assemble"
       ELSE /\ pc' = "raised"
            /\ UNCHANGED all_words
    /\ UNCHANGED <<storage_vars, exit_status, traceback_printed, fn_pc, fn_args, fn_result, audio_duration, slow_audio, speed_factor, submitted, queue,
                   worker, task, attempt, tmp_file, ret, results, yielded,
                   exc, annotations, output_written>>

\* executor.submit(transcribe_chunk, idx, ...) for the next chunk of chunks_dict
Submit ==
    /\ pc = "submit"
    /\ submitted \in chunks_dict
    /\ queue' = Append(queue, submitted)
    /\ task' = [task EXCEPT ![submitted] = "queued"]
    /\ submitted' = submitted + 1
    /\ pc' = IF submitted + 1 \in chunks_dict THEN "submit" ELSE "collect"
    /\ UNCHANGED <<storage_vars, exit_status, traceback_printed, fn_pc, fn_args, fn_result, audio_duration, slow_audio, speed_factor, worker, attempt,
                   tmp_file, ret, results, yielded, exc,
                   all_words, annotations, output_written>>

\* an idle worker thread of the pool takes the oldest work item
WorkerTake(w) ==
    /\ worker[w] = NoTask
    /\ queue # <<>>
    /\ worker' = [worker EXCEPT ![w] = Head(queue)]
    /\ queue' = Tail(queue)
    /\ enter_transcribe_chunk(Head(queue))
    /\ UNCHANGED <<storage_vars, exit_status, traceback_printed, fn_pc, fn_args, fn_result, audio_duration, slow_audio, speed_factor, pc, submitted,
                   ret, results, yielded, exc, all_words, annotations, output_written>>

\* collection loop that skips a failed future instead of re-raising
Collect_skip_failed(idx) ==
    /\ pc = "collect"
    /\ idx \in chunks_dict \ yielded
    /\ task[idx] \in Finished
    /\ yielded' = yielded \cup {idx}
    /\ results' = IF task[idx] = "returned" THEN Append(results, <<idx, ret[idx]>>) ELSE results
    /\ pc' = IF yielded \cup {idx} = chunks_dict THEN "shutdown" ELSE "collect"
    /\ UNCHANGED <<storage_vars, exit_status, traceback_printed, fn_pc, fn_args, fn_result, audio_duration, slow_audio, speed_factor, submitted, queue, worker,
                   task, attempt, tmp_file, ret, exc,
                   all_words, annotations, output_written>>

\* one iteration of "for future in as_completed(future_to_idx)": a finished
\* future not yet yielded; future.result() returns or re-raises
Collect(idx) ==
    /\ pc = "collect"
    /\ idx \in chunks_dict \ yielded
    /\ task[idx] \in Finished
    /\ yielded' = yielded \cup {idx}
    /\ IF task[idx] = "returned"
       THEN /\ results' = Append(results, <<idx, ret[idx]>>)
            /\ pc' = IF yielded \cup {idx} = chunks_dict THEN "shutdown" ELSE "collect"
            /\ UNCHANGED exc
       ELSE /\ exc' = TRUE
            /\ pc' = "shutdown"
            /\ UNCHANGED results
    /\ UNCHANGED <<storage_vars, exit_status, traceback_printed, fn_pc, fn_args, fn_result, audio_duration, slow_audio, speed_factor, submitted, queue, worker,
                   task, attempt, tmp_file, ret,
                   all_words, annotations, output_written>>

\* an exit of the with block that does not wait for the pool when the
\* collection loop raised (shutdown(wait=False, cancel_futures=True))
ExitPool_cancel_pending ==
    /\ pc = "shutdown"
    /\ exc \/ (queue = <<>> /\ \A w \in Workers : worker[w] = NoTask)
    /\ IF exc
       THEN /\ pc' = "raised"
            /\ UNCHANGED all_words
       ELSE /\ all_words' = merge_json_with_offset(results, AUDIO_CHUNKING_OFFSET)
            /\ pc' = "assemble"
    /\ UNCHANGED <<storage_vars, exit_status, traceback_printed, fn_pc, fn_args, fn_result, audio_duration, slow_audio, speed_factor, submitted, queue, worker,
                   task, attempt, tmp_file, ret, results, yielded, exc,
                   annotations, output_written>>

\* the with block is left: ThreadPoolExecutor.__exit__ is shutdown(wait=True),
\* which returns once the queue is drained and the workers are idle; then the
\* pending exception propagates, or merge_json_with_offset builds final_json
ExitPool ==
    /\ pc = "shutdown"
    /\ queue = <<>>
    /\ \A w \in Workers : worker[w] = NoTask
    /\ IF exc
       THEN /\ pc' = "raised"
            /\ UNCHANGED all_words
       ELSE /\ all_words' = merge_json_with_offset(results, AUDIO_CHUNKING_OFFSET)
            /\ pc' = "assemble"
    /\ UNCHANGED <<storage_vars, exit_status, traceback_printed, fn_pc, fn_args, fn_result, audio_duration, slow_audio, speed_factor, submitted, queue, worker,
                   task, attempt, tmp_file, ret, results, yielded, exc,
                   annotations, output_written>>

\* lines 816-863 of process_diarization: the annotations loop and save_json
Assemble ==
    /\ pc = "assemble"
    /\ annotations' = build_annotations(all_words, audio_duration)
    /\ output_written' = TRUE
    /\ pc' = "done"
    /\ UNCHANGED <<storage_vars, exit_status, traceback_printed, fn_pc, fn_args, fn_result, audio_duration, slow_audio, speed_factor, submitted, queue, worker,
                   task, attempt, tmp_file, ret, results, yielded, exc,
                   all_words>>

\* ------------------------------------------------------ command-line run
\* __main__ without an audio path argument: the usage text and sys.exit(1)
UsageExit ==
    /\ pc = "start"
    /\ ~ slow_audio
    /\ pc' = "exited"
    /\ exit_status' = 1
    /\ UNCHANGED <<storage_vars, traceback_printed, fn_pc, fn_args, fn_result, audio_duration, slow_audio,
                   speed_factor, submitted, queue, worker, task, attempt, tmp_file, ret,
                   results, yielded, exc, all_words, annotations, output_written>>

\* __main__, lines 917-954, after process_diarization (called without
\* slow_audio) has returned or raised: the try block prints its summary, the
\* "except Exception" block prints the error and the traceback; in both cases
\* the script then ends, and the interpreter exits with status 0
MainExit ==
    /\ pc \in {"done", "raised"}
    /\ ~ slow_audio
    /\ traceback_printed' = (pc = "raised")
    /\ exit_status' = 0
    /\ pc' = "exited"
    /\ UNCHANGED <<storage_vars, fn_pc, fn_args, fn_result, audio_duration, slow_audio,
                   speed_factor, submitted, queue, worker, task, attempt, tmp_file, ret,
                   results, yielded, exc, all_words, annotations, output_written>>

Next ==
    \/ Start
    \/ DirectReturn
    \/ Submit
    \/ \E w \in Workers : WorkerTake(w)
    \/ \E idx \in ChunkIds : CallModel(idx)
    \/ \E idx \in ChunkIds : ModelRaises(idx)
    \/ \E idx \in ChunkIds : EndSleep(idx)
    \/ \E idx \in ChunkIds, content \in Contents : ModelReturns(idx, content)
    \/ \E idx \in ChunkIds : Collect(idx)
    \/ ExitPool
    \/ Assemble
    \/ UsageExit
    \/ MainExit

Spec == Init /\ [][Next]_vars

\* ===================================================================
\* Properties
\* ===================================================================

\* C1: if the backend call of some chunk raised on each of its 5 attempts,
\* the transcript is never merged, no annotation is built and save_json is
\* not reached; process_diarization does not complete.
C1_FatalChunkNoOutput ==
    (\E idx \in ChunkIds : task[idx] = "raised_backend")
        => /\ output_written = FALSE
           /\ all_words = <<>>
           /\ annotations = <<>>
           /\ pc \notin {"assemble", "done"}

\* a multi-chunk run raised to its caller although another chunk had
\* returned entries
C1_Witness ==
    /\ pc = "raised"
    /\ \E i, j \in ChunkIds :
          /\ task[i] = "raised_backend"
          /\ task[j] = "returned"
          /\ results # <<>>
    /\ output_written = FALSE

\* C2: a backend call is only entered on attempts 1..5 (loop variable 0..4);
\* a failed call leaves retry_with_backoff with the exception exactly when it
\* was the 5th (never earlier, and the 5th failure is never followed by a
\* sleep or a return value); once the call has returned or the exception has
\* propagated, no further attempt is made for the chunk.
C2_AtMostFiveAttempts ==
    [][\A idx \in ChunkIds :
          /\ (task'[idx] = "calling" => attempt'[idx] < max_retries)
          /\ (task[idx] = "calling" /\ task'[idx] = "raised_backend"
                  => attempt[idx] = max_retries - 1)
          /\ (task[idx] = "calling" /\ attempt[idx] = max_retries - 1
                  => task'[idx] # "sleeping")
          /\ (task[idx] \in Finished => task'[idx] = task[idx])
      ]_vars

\* the fifth attempt of a chunk is in flight
C2_Witness ==
    \E idx \in ChunkIds : task[idx] = "calling" /\ attempt[idx] = max_retries - 1

\* C3: with slow_audio, the temporary file of a chunk does not exist once
\* transcribe_chunk has been left, whether by return or by exception.
C3_TempFileDeletedOnEveryExit ==
    \A idx \in ChunkIds :
        (slow_audio /\ task[idx] \in Finished) => ~ tmp_file[idx]

\* C4: at most one transcribe_chunk execution, and so at most one backend
\* call, is under way at any time.
C4_OneInFlight ==
    /\ Cardinality({idx \in ChunkIds : task[idx] \in {"ready", "calling", "sleeping"}}) <= 1
    /\ Cardinality({idx \in ChunkIds : task[idx] = "calling"}) <= 1

\* a backend call is in flight while another chunk is waiting in the queue
C4_Witness ==
    \E i, j \in ChunkIds : task[i] = "calling" /\ task[j] = "queued"

\* chunk idx's entries shifted by idx * AUDIO_CHUNKING_OFFSET seconds
ShiftedChunk(idx) ==
    [k \in 1..Len(ret[idx]) |->
        shift_entry(ret[idx][k], idx * AUDIO_CHUNKING_OFFSET * UnitsPerSecond)]

RECURSIVE AscendingMerge(_, _)
AscendingMerge(idx, n) ==
    IF idx >= n THEN <<>> ELSE ShiftedChunk(idx) \o AscendingMerge(idx + 1, n)

\* C5: whatever the order in which the futures were collected, the merged
\* transcript of transcribe_chunks is the chunks' entries in ascending chunk
\* index.
C5_MergeIndependentOfCollectionOrder ==
    (pc \in {"assemble", "done"} /\ Cardinality(chunks_dict) > 1)
        => all_words = AscendingMerge(0, Cardinality(chunks_dict))

\* chunk 1 was collected before chunk 0, with different entries, and merged
C5_Witness ==
    /\ pc = "done"
    /\ Len(results) >= 2
    /\ results[1][1] > results[2][1]
    /\ results[1][2] # results[2][2]

\* C7: no two entries of the final merged transcript have the same
\* (start, end) pair.
C7_NoDuplicatePairs ==
    pc = "done" =>
        \A i, j \in 1..Len(all_words) :
            i # j => <<all_words[i].start, all_words[i].end>>
                        # <<all_words[j].start, all_words[j].end>>

\* C8: every entry of the final merged transcript has start < end.
C8_StartBeforeEnd ==
    pc = "done" =>
        \A k \in 1..Len(all_words) :
            timestamp_to_seconds(all_words[k].start) < timestamp_to_seconds(all_words[k].end)

\* seconds of an "H:MM:SS.mmmmmm" timestamp
PreciseSeconds(t) ==
    t[1] * 3600 * UnitsPerSecond + t[2] * 60 * UnitsPerSecond + t[3]

\* C9: the annotations of the emitted record are in non-decreasing start
\* order.
C9_AnnotationsSorted ==
    pc = "done" =>
        \A k \in 1..(Len(annotations) - 1) :
            PreciseSeconds(annotations[k].start) <= PreciseSeconds(annotations[k + 1].start)

\* ===================================================================
\* merge_json_with_offset called on its own
\* ===================================================================
\* WordEntry values at the edges of a chunk: a start of 0 with the end
\* "00:60.000" that "%06.3f" can print, the last millisecond before
\* AUDIO_CHUNKING_OFFSET, and a start beyond it.
MergeEntries ==
    { [start |-> <<0, 0>>, end |-> <<0, 60000>>, word |-> <<"a">>],
      [start |-> <<1, 39999>>, end |-> <<1, 40000>>, word |-> <<"b">>],
      [start |-> <<1, 40001>>, end |-> <<1, 40002>>, word |-> <<"a">>] }

\* insertion orders of the keys 0..n-1
KeyOrders(n) ==
    {p \in [1..n -> 0..(n - 1)] : \A a, b \in 1..n : a # b => p[a] # p[b]}

\* the entry lists a chunk may hold
EntryLists == SeqsUpTo(MergeEntries, MaxEntries)

PipelineUnused ==
    /\ audio_duration = 0
    /\ slow_audio = FALSE
    /\ speed_factor = 2
    /\ pc = "unused"
    /\ submitted = 0
    /\ queue = <<>>
    /\ worker = [w \in Workers |-> NoTask]
    /\ task = [i \in ChunkIds |-> "none"]
    /\ attempt = [i \in ChunkIds |-> 0]
    /\ tmp_file = [i \in ChunkIds |-> FALSE]
    /\ ret = [i \in ChunkIds |-> <<>>]
    /\ results = <<>>
    /\ yielded = {}
    /\ exc = FALSE
    /\ all_words = <<>>
    /\ annotations = <<>>
    /\ output_written = FALSE
    /\ exit_status = NoStatus
    /\ traceback_printed = FALSE

pipeline_vars ==
    <<audio_duration, slow_audio, speed_factor, pc, submitted, queue, worker, task,
      attempt, tmp_file, ret, results, yielded, exc, all_words, annotations,
      output_written, exit_status, traceback_printed>>

\* the results dict of n chunks in any insertion order, every chunk holding
\* any entry list; time_offset as transcribe_chunks passes it
InitMerge ==
    /\ PipelineUnused
    /\ StorageUnused
    /\ fn_pc = "called"
    /\ \E n \in 1..MaxChunks :
          \E p \in KeyOrders(n), l \in [1..n -> EntryLists] :
             fn_args = [data |-> [j \in 1..n |-> <<p[j], l[j]>>],
                        time_offset |-> AUDIO_CHUNKING_OFFSET]
    /\ fn_result = <<>>

MergeCall ==
    /\ fn_pc = "called"
    /\ fn_result' = merge_json_with_offset(fn_args.data, fn_args.time_offset)
    /\ fn_pc' = "returned"
    /\ UNCHANGED <<fn_args, pipeline_vars, storage_vars>>

NextMerge == MergeCall

SpecMerge == InitMerge /\ [][NextMerge]_vars

RECURSIVE TotalEntries(_)
TotalEntries(data) ==
    IF data = <<>> THEN 0 ELSE Len(Head(data)[2]) + TotalEntries(Tail(data))

\* number of entries held by the chunks of index below i
RECURSIVE EntriesBelow(_, _)
EntriesBelow(data, i) ==
    IF data = <<>> THEN 0
    ELSE (IF Head(data)[1] < i THEN Len(Head(data)[2]) ELSE 0) + EntriesBelow(Tail(data), i)

ChunksConsistent(data, time_offset) ==
    \A j \in 1..Len(data) :
        LET json_array == data[j][2]
        IN  /\ \A k \in 1..Len(json_array) :
                  timestamp_to_seconds(json_array[k].start) < time_offset * UnitsPerSecond
            /\ \A k \in 1..(Len(json_array) - 1) :
                  timestamp_to_seconds(json_array[k].start)
                      <= timestamp_to_seconds(json_array[k + 1].start)

\* C10: when every chunk's list is non-decreasing by start with starts in
\* [0, time_offset), the merged list is non-decreasing by start throughout.
C10_MergedNonDecreasing ==
    (fn_pc = "returned" /\ ChunksConsistent(fn_args.data, fn_args.time_offset))
        => \A k \in 1..(Len(fn_result) - 1) :
              timestamp_to_seconds(fn_result[k].start)
                  <= timestamp_to_seconds(fn_result[k + 1].start)

\* consistent chunks 0 and 1 were merged where chunk 0 ends on a later raw
\* start than chunk 1 begins with
C10_Witness ==
    /\ fn_pc = "returned"
    /\ ChunksConsistent(fn_args.data, fn_args.time_offset)
    /\ \E a, b \in 1..Len(fn_args.data) :
          /\ fn_args.data[a][1] = 0
          /\ fn_args.data[b][1] = 1
          /\ fn_args.data[a][2] # <<>>
          /\ fn_args.data[b][2] # <<>>
          /\ timestamp_to_seconds(fn_args.data[a][2][Len(fn_args.data[a][2])].start)
                > timestamp_to_seconds(fn_args.data[b][2][1].start)

\* ===================================================================
\* deduplicate_entries called on its own
\* ===================================================================
MaxItems == 3

\* entries over two (start, end) pairs that share their start, with the
\* words "hello", "hello world" and ""
DedupEntries ==
    { [start |-> <<0, 1>>, end |-> e, word |-> w] :
        e \in {<<0, 3>>, <<0, 4>>},
        w \in {<<"hello">>, <<"hello", " ", "world">>, <<>>} }

InitDedup ==
    /\ PipelineUnused
    /\ StorageUnused
    /\ fn_pc = "called"
    /\ \E items \in SeqsUpTo(DedupEntries, MaxItems) : fn_args = [items |-> items]
    /\ fn_result = <<>>

DedupCall ==
    /\ fn_pc = "called"
    /\ fn_result' = deduplicate_entries(fn_args.items)
    /\ fn_pc' = "returned"
    /\ UNCHANGED <<fn_args, pipeline_vars, storage_vars>>

NextDedup == DedupCall

SpecDedup == InitDedup /\ [][NextDedup]_vars

PairOf(entry) == <<entry.start, entry.end>>

\* positions of items that hold the first occurrence of their pair
FirstOccurrences(items) ==
    {i \in 1..Len(items) : \A j \in 1..(i - 1) : PairOf(items[j]) # PairOf(items[i])}

\* the word of the surviving entry of pair after the first n items: the
\* first occurrence's word, to which each later occurrence is appended
\* after a space unless its word equals the surviving word at that point
RECURSIVE SurvivingWord(_, _, _)
SurvivingWord(items, pair, n) ==
    IF PairOf(items[n]) # pair THEN SurvivingWord(items, pair, n - 1)
    ELSE IF \A j \in 1..(n - 1) : PairOf(items[j]) # pair THEN items[n].word
    ELSE LET before == SurvivingWord(items, pair, n - 1)
         IN  IF items[n].word = before THEN before
             ELSE before \o <<" ">> \o items[n].word

\* C11: deduplicate_entries returns exactly one entry per distinct
\* (start, end) pair, in the order of first occurrence; a later entry of a
\* seen pair is dropped when its word equals the surviving entry's word and
\* is otherwise appended to it after a space.
C11_DedupOnePerPair ==
    fn_pc = "returned" =>
        LET items == fn_args.items
            first == FirstOccurrences(items)
        IN  /\ Len(fn_result) = Cardinality(first)
            /\ \A i \in first :
                 LET k == Cardinality({j \in first : j <= i})
                     last == CHOOSE n \in 1..Len(items) :
                                /\ PairOf(items[n]) = PairOf(items[i])
                                /\ \A m \in (n + 1)..Len(items) : PairOf(items[m]) # PairOf(items[i])
                 IN  /\ PairOf(fn_result[k]) = PairOf(items[i])
                     /\ fn_result[k].word = SurvivingWord(items, PairOf(items[i]), last)

\* "hello" then "hello world" on one pair gave the single entry
\* "hello hello world"; a third "hello" was appended too
C11_Witness ==
    /\ fn_pc = "returned"
    /\ Len(fn_args.items) = 3
    /\ fn_args.items[1].word = <<"hello">>
    /\ fn_args.items[2] = [fn_args.items[1] EXCEPT !.word = <<"hello", " ", "world">>]
    /\ fn_args.items[3] = fn_args.items[1]
    /\ fn_result = <<[fn_args.items[1] EXCEPT
                        !.word = <<"hello", " ", "hello", " ", "world", " ", "hello">>]>>

\* ===================================================================
\* safe_extract_json called on its own, on response texts
\* ===================================================================
quoted(text) == <<"\"">> \o text \o <<"\"">>

\* "key": "value"
member_text(key, value) == quoted(<<key>>) \o <<":", " ">> \o quoted(value)

\* {"start": "...", "end": "...", "word": "..."}
entry_text(start, end, word) ==
    <<"{">> \o member_text("start", start) \o <<",", " ">>
            \o member_text("end", end) \o <<",", " ">>
            \o member_text("word", word) \o <<"}">>

\* Objects a response may hold, as written and as json.loads reads them:
\* two entries of one (start, end) pair, an entry whose word holds a
\* comma and a closing brace, and an object without "end".
ResponseObjects ==
    { [text |-> entry_text(<<"00", ":", "01.000">>, <<"00", ":", "02.000">>, <<"a">>),
       value |-> [start |-> <<"00", ":", "01.000">>, end |-> <<"00", ":", "02.000">>,
                  word |-> <<"a">>]],
      [text |-> entry_text(<<"00", ":", "01.000">>, <<"00", ":", "02.000">>, <<"b">>),
       value |-> [start |-> <<"00", ":", "01.000">>, end |-> <<"00", ":", "02.000">>,
                  word |-> <<"b">>]],
      [text |-> entry_text(<<"00", ":", "02.000">>, <<"00", ":", "03.000">>, <<"c", ",", "}">>),
       value |-> [start |-> <<"00", ":", "02.000">>, end |-> <<"00", ":", "03.000">>,
                  word |-> <<"c", ",", "}">>]],
      [text |-> <<"{">> \o member_text("start", <<"00", ":", "03.000">>) \o <<",", " ">>
                        \o member_text("word", <<"a">>) \o <<"}">>,
       value |-> [start |-> <<"00", ":", "03.000">>, word |-> <<"a">>]] }

\* [obj,\nobj,\n ... obj]
RECURSIVE array_body(_)
array_body(objects) ==
    IF objects = <<>> THEN <<>>
    ELSE Head(objects).text
         \o (IF Len(objects) = 1 THEN <<>> ELSE <<",", "\n">> \o array_body(Tail(objects)))

array_text(objects) == <<"[">> \o array_body(objects) \o <<"]">>

\* the response that writes the array of objects after an opening fence,
\* is cut off after cut lexemes of the array, and then closes the fence
\* or not
response_text(objects, cut, closed) ==
    <<Fence, "json", "\n">> \o SubSeq(array_text(objects), 1, cut)
        \o (IF closed THEN <<"\n", Fence>> ELSE <<>>)

\* the example of a missing closing quote: an opening fence, then
\* {"start": "00:05.120, "end": "00:05.450", "word": "hi"}]
MissingQuoteObject ==
    <<"{">> \o quoted(<<"start">>) \o <<":", " ", "\"", "00", ":", "05.120", ",", " ">>
            \o member_text("end", <<"00", ":", "05.450">>) \o <<",", " ">>
            \o member_text("word", <<"hi">>) \o <<"}">>

MissingQuoteExample == <<Fence, "json", "\n">> \o MissingQuoteObject \o <<"]">>

\* a well-formed entry, for the texts below
PlainEntry == entry_text(<<"00", ":", "01.000">>, <<"00", ":", "02.000">>, <<"a">>)

\* Further responses: the example with its opening bracket; an array
\* with no fence and one after a fence that lacks "json"; an entry written
\* one member per line with the closing quote of "start" missing, before a
\* comma and before "end"; a numeric member at the end of a line; a form
\* feed inside a word; a trailing comma; an empty array and a word alone.
OtherResponses ==
    { MissingQuoteExample,
      <<Fence, "json", "\n", "[">> \o MissingQuoteObject \o <<"]", "\n", Fence>>,
      <<"[">> \o PlainEntry \o <<"]">>,
      <<Fence, "\n", "[">> \o PlainEntry \o <<"]", "\n", Fence>>,
      <<Fence, "json", "\n", "[", "{">>
          \o quoted(<<"start">>) \o <<":", " ", "\"", "00", ":", "01.000", ",", "\n", " ">>
          \o member_text("end", <<"00", ":", "02.000">>) \o <<",", "\n", " ">>
          \o member_text("word", <<"a">>) \o <<"}", "]", "\n", Fence>>,
      <<Fence, "json", "\n", "[", "{">>
          \o quoted(<<"start">>) \o <<":", " ", "\"", "00", ":", "01.000", "\n", " ">>
          \o member_text("end", <<"00", ":", "02.000">>) \o <<",", "\n", " ">>
          \o member_text("word", <<"a">>) \o <<"}", "]", "\n", Fence>>,
      <<Fence, "json", "\n", "[", "{">>
          \o member_text("start", <<"00", ":", "01.000">>) \o <<",", " ">>
          \o member_text("end", <<"00", ":", "02.000">>) \o <<",", " ">>
          \o quoted(<<"confidence">>) \o <<":", " ", "0.95", ",", "\n", " ">>
          \o member_text("word", <<"a">>) \o <<"}", "]", "\n", Fence>>,
      <<Fence, "json", "\n", "[">>
          \o entry_text(<<"00", ":", "01.000">>, <<"00", ":", "02.000">>, <<"a", "\f", "b">>)
          \o <<"]", "\n", Fence>>,
      <<Fence, "json", "\n", "[">> \o PlainEntry \o <<",", "\n", "]", "\n", Fence>>,
      <<Fence, "json", "\n", "[", "]", "\n", Fence>>,
      <<Fence, "json", "\n", "hello", "\n", Fence>> }

\* what safe_extract_json does with a response text
extract_outcome(content) ==
    LET loaded == load_json_block(content)
    IN  IF safe_extract_json_raises(loaded) THEN [raises |-> TRUE, value |-> <<>>]
        ELSE [raises |-> FALSE, value |-> safe_extract_json(loaded)]

\* a response cut anywhere (objects, cut, closed say how it was written),
\* or one of the further responses
InitExtract ==
    /\ PipelineUnused
    /\ StorageUnused
    /\ fn_pc = "called"
    /\ \/ \E objects \in SeqsUpTo(ResponseObjects, MaxEntries), closed \in BOOLEAN :
             \E cut \in 0..Len(array_text(objects)) :
                fn_args = [content |-> response_text(objects, cut, closed),
                           written |-> [objects |-> objects, cut |-> cut, closed |-> closed]]
       \/ \E text \in OtherResponses :
             fn_args = [content |-> text, written |-> [objects |-> <<>>, cut |-> 0 - 1, closed |-> FALSE]]
    /\ fn_result = <<>>

ExtractCall ==
    /\ fn_pc = "called"
    /\ fn_result' = extract_outcome(fn_args.content)
    /\ fn_pc' = "returned"
    /\ UNCHANGED <<fn_args, pipeline_vars, storage_vars>>

NextExtract == ExtractCall

SpecExtract == InitExtract /\ [][NextExtract]_vars

\* position in array_text(objects) of the opening brace of the n-th object
RECURSIVE object_start(_, _)
object_start(objects, n) ==
    IF n = 1 THEN 2
    ELSE object_start(objects, n - 1) + Len(objects[n - 1].text) + 2

\* position of its closing brace
object_end(objects, n) == object_start(objects, n) + Len(objects[n].text) - 1

\* the array was cut off inside its n-th object
cut_inside(written, n) ==
    /\ n \in 1..Len(written.objects)
    /\ object_start(written.objects, n) <= written.cut
    /\ written.cut < object_end(written.objects, n)

\* the entries of the first k objects, validated and deduplicated
entries_of_first(objects, k) ==
    deduplicate_entries(validate_items([n \in 1..k |-> objects[n].value]))

\* C12: a response whose array is cut off mid-object after k >= 1 complete
\* objects, with no closing bracket and with or without a closing fence,
\* yields exactly the entries of those k objects, validated and
\* deduplicated (an error when none of them is valid).
C12_TruncatedArrayRecovered ==
    fn_pc = "returned" =>
        \A n \in 2..Len(fn_args.written.objects) :
            cut_inside(fn_args.written, n) =>
                LET expected == entries_of_first(fn_args.written.objects, n - 1)
                IN  IF expected = <<>> THEN fn_result.raises
                    ELSE fn_result = [raises |-> FALSE, value |-> expected]

\* C13: the response that holds, after an opening fence and with no
\* closing fence, {"start": "00:05.120, "end": "00:05.450", "word": "hi"}]
\* yields the one entry start "00:05.120", end "00:05.450", word "hi".
C13_MissingQuoteRecovered ==
    (fn_pc = "returned" /\ fn_args.content = MissingQuoteExample) =>
        fn_result = [raises |-> FALSE,
                     value |-> <<[start |-> <<"00", ":", "05.120">>,
                                  end |-> <<"00", ":", "05.450">>,
                                  word |-> <<"hi">>]>>]

\* C14: safe_extract_json raises exactly when the response has no fenced
\* block, when its text parses neither before nor after the aggressive
\* repair, or when no parsed entry survives validation; what it returns is
\* never empty and every returned entry has start, end and word.
C14_NeverReturnsEmpty ==
    fn_pc = "returned" =>
        LET content == fn_args.content
            fenced == fence_positions(content) # {}
            first == json_loads(repaired_json_str(content))
            second == json_loads(aggressive_repair(repaired_json_str(content)))
            parsed == IF first.ok THEN first ELSE second
        IN  /\ fn_result.raises <=>
                 \/ ~ fenced
                 \/ fenced /\ ~ parsed.ok
                 \/ fenced /\ parsed.ok /\ validate_items(parsed.val) = <<>>
            /\ ~ fn_result.raises =>
                 /\ fn_result.value # <<>>
                 /\ \A k \in 1..Len(fn_result.value) :
                       {"start", "end", "word"} \subseteq DOMAIN fn_result.value[k]

\* a response whose array parsed to objects none of which is valid was
\* refused
C14_Witness ==
    /\ fn_pc = "returned"
    /\ fn_result.raises
    /\ load_json_block(fn_args.content).kind = "array"
    /\ load_json_block(fn_args.content).items # <<>>

\* C17: when the fenced content is already a parseable JSON array, the
\* outcome is that of validating and deduplicating the entries parsed from
\* it directly: no repair rewrite alters valid content.
C17_ValidContentNotRewritten ==
    (fn_pc = "returned" /\ fence_positions(fn_args.content) # {}) =>
        LET direct == json_loads(json_block(fn_args.content))
        IN  direct.ok =>
               LET valid_items == validate_items(direct.val)
               IN  IF valid_items = <<>> THEN fn_result.raises
                   ELSE fn_result = [raises |-> FALSE,
                                     value |-> deduplicate_entries(valid_items)]

\* ===================================================================
\* the validation of safe_extract_json on parsed objects
\* ===================================================================
\* Objects json.loads may give for the pair ("00:00.001", "00:00.003"):
\* with a word, with an empty word, with the legacy keys in every
\* combination of present, empty and absent, with a word next to a legacy
\* key, and objects that lack the text, "end" or "start".
ParsedObjects ==
    LET pair == [start |-> <<0, 1>>, end |-> <<0, 3>>]
    IN  { pair @@ [word |-> <<"a">>],
          pair @@ [word |-> <<>>],
          pair @@ [Text |-> <<"T">>, text |-> <<"x">>],
          pair @@ [Text |-> <<>>, text |-> <<"x">>],
          pair @@ [Text |-> <<>>],
          pair @@ [text |-> <<"x">>],
          pair @@ [word |-> <<"a">>, Text |-> <<"T">>],
          pair,
          [start |-> <<0, 1>>, word |-> <<"a">>],
          [end |-> <<0, 3>>, text |-> <<"x">>] }

InitValidate ==
    /\ PipelineUnused
    /\ StorageUnused
    /\ fn_pc = "called"
    /\ \E json_data \in SeqsUpTo(ParsedObjects, MaxEntries) :
          fn_args = [json_data |-> json_data]
    /\ fn_result = <<>>

\* lines 130-152: valid_items as the loop leaves it, and the outcome
ValidateCall ==
    /\ fn_pc = "called"
    /\ LET content == [kind |-> "array", items |-> fn_args.json_data]
       IN  fn_result' =
              [valid_items |-> validate_items(fn_args.json_data),
               raises |-> safe_extract_json_raises(content),
               value |-> IF safe_extract_json_raises(content) THEN <<>>
                         ELSE safe_extract_json(content)]
    /\ fn_pc' = "returned"
    /\ UNCHANGED <<fn_args, pipeline_vars, storage_vars>>

NextValidate == ValidateCall

SpecValidate == InitValidate /\ [][NextValidate]_vars

\* C15: no entry whose word (or legacy text/Text) is missing or empty is
\* returned by safe_extract_json, and no annotation made of a returned
\* entry has an empty Transcription text.
C15_NoEmptyTextSurvives ==
    (fn_pc = "returned" /\ ~ fn_result.raises) =>
        \A k \in 1..Len(fn_result.value) :
            /\ fn_result.value[k].word # <<>>
            /\ fn_result.value[k].word # None
            /\ annotation_entry(fn_result.value[k], UnitsPerSecond).Transcription # << <<>> >>

\* the entry keeps start and end and has word or a legacy text key
IsKept(item) ==
    /\ {"start", "end"} \subseteq DOMAIN item
    /\ {"word", "Text", "text"} \cap DOMAIN item # {}

\* the word of a kept entry: its own, else Text when that is present and
\* not empty, else text (None when there is no text key either)
WordOfKept(item) ==
    IF "word" \in DOMAIN item THEN item.word
    ELSE IF "Text" \in DOMAIN item /\ item.Text # <<>> THEN item.Text
    ELSE IF "text" \in DOMAIN item THEN item.text
    ELSE None

\* C16: validation keeps an entry exactly when it has both start and end
\* and has word or a legacy text/Text key; a kept entry without word gets
\* its word from Text, else from text; kept entries stay in their order
\* with their other fields, all other entries are dropped.
C16_ValidationKeepsExactly ==
    fn_pc = "returned" =>
        LET json_data == fn_args.json_data
            kept == {i \in 1..Len(json_data) : IsKept(json_data[i])}
        IN  /\ Len(fn_result.valid_items) = Cardinality(kept)
            /\ \A i \in kept :
                 LET out == fn_result.valid_items[Cardinality({j \in kept : j <= i})]
                 IN  /\ DOMAIN out = DOMAIN json_data[i] \cup {"word"}
                     /\ \A f \in DOMAIN json_data[i] \ {"word"} : out[f] = json_data[i][f]
                     /\ out.word = WordOfKept(json_data[i])

\* an object without text was dropped and the next one, whose Text is
\* empty, got its word from text
C16_Witness ==
    /\ fn_pc = "returned"
    /\ Len(fn_args.json_data) = 2
    /\ DOMAIN fn_args.json_data[1] = {"start", "end"}
    /\ DOMAIN fn_args.json_data[2] = {"start", "end", "Text", "text"}
    /\ fn_args.json_data[2].Text = <<>>
    /\ fn_result.valid_items = <<fn_args.json_data[2] @@ [word |-> <<"x">>]>>

\* ===================================================================
\* slow_audio_by_factor, the backend's report and
\* adjust_timestamps_for_speed on one timestamp
\* ===================================================================
\* audio.frame_rate of common assets, in Hz
FrameRates == {8000, 16000, 22050, 44100, 48000}

\* original positions in a chunk, in milliseconds (up to 97 s)
ChunkPositions == {0, 1, 2, 3, 5, 7, 500, 59999, 60000, 96998, 96999}

\* new_frame_rate = int(audio.frame_rate * speed_factor); the slowed audio
\* is the same samples played at new_frame_rate
slow_audio_by_factor(frame_rate, factor) == (frame_rate * factor) \div 4

RECURSIVE gcd(_, _)
gcd(a, b) == IF b = 0 THEN a ELSE gcd(b, a % b)

\* The millisecond timestamps nearest to the place where the sample played
\* at position ms of the original is heard in the slowed audio,
\* position * frame_rate / new_frame_rate (both neighbours on a tie).
\* The ratio is taken in lowest terms.
slowed_positions(position, frame_rate, new_frame_rate) ==
    LET g == gcd(frame_rate, new_frame_rate)
        num == position * (frame_rate \div g)
        den == new_frame_rate \div g
        below == num \div den
    IN  {m \in {below, below + 1} :
            /\ 2 * (m * den - num) <= den
            /\ 2 * (num - m * den) <= den}

\* "MM:SS.mmm" of a number of milliseconds
timestamp_of_ms(ms) == <<ms \div 60000, ms % 60000>>

InitSpeed ==
    /\ PipelineUnused
    /\ StorageUnused
    /\ fn_pc = "called"
    /\ \E frame_rate \in FrameRates, factor \in SpeedFactors, position \in ChunkPositions :
          fn_args = [frame_rate |-> frame_rate, speed_factor |-> factor,
                     position |-> position]
    /\ fn_result = <<>>

SlowAudio ==
    /\ fn_pc = "called"
    /\ fn_result' = [new_frame_rate |->
                        slow_audio_by_factor(fn_args.frame_rate, fn_args.speed_factor)]
    /\ fn_pc' = "slowed"
    /\ UNCHANGED <<fn_args, pipeline_vars, storage_vars>>

\* the backend reports the word at its place in the slowed audio
BackendReports ==
    /\ fn_pc = "slowed"
    /\ \E m \in slowed_positions(fn_args.position, fn_args.frame_rate,
                                 fn_result.new_frame_rate) :
          fn_result' = [new_frame_rate |-> fn_result.new_frame_rate,
                        json_data |-> <<[start |-> timestamp_of_ms(m),
                                         end |-> timestamp_of_ms(m),
                                         word |-> <<"a">>]>>]
    /\ fn_pc' = "reported"
    /\ UNCHANGED <<fn_args, pipeline_vars, storage_vars>>

AdjustTimestamps ==
    /\ fn_pc = "reported"
    /\ fn_result' = [new_frame_rate |-> fn_result.new_frame_rate,
                     json_data |-> adjust_timestamps_for_speed(fn_result.json_data,
                                                               fn_args.speed_factor)]
    /\ fn_pc' = "adjusted"
    /\ UNCHANGED <<fn_args, pipeline_vars, storage_vars>>

NextSpeed == SlowAudio \/ BackendReports \/ AdjustTimestamps

SpecSpeed == InitSpeed /\ [][NextSpeed]_vars

\* C18: for speed factors 0.25, 0.5, 0.75 and 1.0 and every original
\* timestamp of a chunk, slowing the audio (with the integer truncation of
\* the new frame rate), reporting the timestamp on the slowed audio to the
\* millisecond and rescaling it recovers the original within 1 ms.
C18_RateInversionWithinOneMs ==
    fn_pc = "adjusted" =>
        LET recovered == timestamp_to_seconds(fn_result.json_data[1].start)
            original == fn_args.position * UnitsPerMs
        IN  /\ recovered - original <= UnitsPerMs
            /\ original - recovered <= UnitsPerMs

\* ===================================================================
\* the timestamp formatters and parsers called on their own
\* ===================================================================
\* Numbers of seconds in [0, 86400), in quarter milliseconds: the four
\* quarters of the milliseconds at the start, around one second, one
\* minute, 100 s, one hour and twelve hours, and at the end of the range.
RoundTripSeconds ==
    { ms * UnitsPerMs + r :
        ms \in {0, 1, 999, 1000, 59999, 60000, 99999, 100000, 3599999, 3600000,
                43200000, 86399998, 86399999},
        r \in 0..(UnitsPerMs - 1) }

InitRoundTrip ==
    /\ PipelineUnused
    /\ StorageUnused
    /\ fn_pc = "called"
    /\ \E seconds \in RoundTripSeconds : fn_args = [seconds |-> seconds]
    /\ fn_result = <<>>

\* seconds_to_timestamp(seconds) and format_timestamp_precise(seconds)
FormatSeconds ==
    /\ fn_pc = "called"
    /\ fn_result' = [timestamp |-> seconds_to_timestamp(fn_args.seconds),
                     precise |-> format_timestamp_precise(fn_args.seconds)]
    /\ fn_pc' = "formatted"
    /\ UNCHANGED <<fn_args, pipeline_vars, storage_vars>>

\* timestamp_to_seconds of the one, the Assembler's parser on the other
ParseTimestamps ==
    /\ fn_pc = "formatted"
    /\ fn_result' = [timestamp |-> fn_result.timestamp,
                     precise |-> fn_result.precise,
                     seconds |-> timestamp_to_seconds(fn_result.timestamp),
                     precise_seconds |-> parse_time_parts(fn_result.precise)]
    /\ fn_pc' = "parsed"
    /\ UNCHANGED <<fn_args, pipeline_vars, storage_vars>>

NextRoundTrip == FormatSeconds \/ ParseTimestamps

SpecRoundTrip == InitRoundTrip /\ [][NextRoundTrip]_vars

\* C19: for every t in [0, 86400) s, timestamp_to_seconds of
\* seconds_to_timestamp(t) is within 1 ms of t, and so is the Assembler's
\* three-part parse of format_timestamp_precise(t).
C19_RoundTripWithinOneMs ==
    fn_pc = "parsed" =>
        /\ fn_result.seconds - fn_args.seconds <= UnitsPerMs
        /\ fn_args.seconds - fn_result.seconds <= UnitsPerMs
        /\ fn_result.precise_seconds - fn_args.seconds <= UnitsPerMs
        /\ fn_args.seconds - fn_result.precise_seconds <= UnitsPerMs

\* 3599.99975 s went through both round trips: its seconds field printed
\* as "60.000" under minute 59 and parsed back a quarter millisecond late
C19_Witness ==
    /\ fn_pc = "parsed"
    /\ fn_args.seconds = 3600 * UnitsPerSecond - 1
    /\ fn_result.timestamp = <<59, 60000>>
    /\ fn_result.seconds = 3600 * UnitsPerSecond
    /\ fn_result.precise = <<0, 59, 60 * UnitsPerSecond - 1>>
    /\ fn_result.precise_seconds = fn_args.seconds

\* ===================================================================
\* the annotation assembly of process_diarization on its own
\* ===================================================================
\* len(audio) / 1000.0 of assets of 118.0 s and 120.5 s
AssetDurations == {118 * UnitsPerSecond, 120 * UnitsPerSecond + 500 * UnitsPerMs}

\* Words around the end of such assets: starts at 117.0 s and 120.0 s,
\* ends at 117.5 s, 118.0 s and 120.5 s, the last one also in the
\* three-part form "0:02:00.500".
AssemblyWords ==
    { [start |-> s, end |-> e, word |-> <<"a">>] :
        s \in {<<1, 57000>>, <<2, 0>>},
        e \in {<<1, 57500>>, <<1, 58000>>, <<2, 500>>, <<0, 2, 500 * UnitsPerMs>>} }

InitAssemble ==
    /\ PipelineUnused
    /\ StorageUnused
    /\ fn_pc = "called"
    /\ \E duration \in AssetDurations, words \in SeqsUpTo(AssemblyWords, MaxEntries) :
          fn_args = [all_words |-> words, audio_duration |-> duration]
    /\ fn_result = <<>>

AssembleCall ==
    /\ fn_pc = "called"
    /\ fn_result' = build_annotations(fn_args.all_words, fn_args.audio_duration)
    /\ fn_pc' = "returned"
    /\ UNCHANGED <<fn_args, pipeline_vars, storage_vars>>

NextAssemble == AssembleCall

SpecAssemble == InitAssemble /\ [][NextAssemble]_vars

\* C20: every annotation has end <= audio_duration; an entry whose end
\* exceeds the duration is emitted with its end formatted from
\* audio_duration exactly, an end that does not exceed it is emitted
\* unchanged.
C20_EndClampedToDuration ==
    fn_pc = "returned" =>
        /\ Len(fn_result) = Len(fn_args.all_words)
        /\ \A k \in 1..Len(fn_result) :
             LET end_seconds == parse_time_parts(fn_args.all_words[k].end)
                 duration == fn_args.audio_duration
             IN  /\ PreciseSeconds(fn_result[k].end) <= duration
                 /\ end_seconds > duration
                       => fn_result[k].end = format_timestamp_precise(duration)
                 /\ end_seconds <= duration
                       => PreciseSeconds(fn_result[k].end) = end_seconds

\* a word ending at 120.5 s of a 118.0 s asset was emitted with end
\* "0:01:58.000000", before a word whose end at 117.5 s stayed
C20_Witness ==
    /\ fn_pc = "returned"
    /\ fn_args.audio_duration = 118 * UnitsPerSecond
    /\ Len(fn_args.all_words) = 2
    /\ fn_args.all_words[1].end = <<2, 500>>
    /\ fn_args.all_words[2].end = <<1, 57500>>
    /\ fn_result[1].end = <<0, 1, 58 * UnitsPerSecond>>
    /\ fn_result[2].end = <<0, 1, 57 * UnitsPerSecond + 500 * UnitsPerMs>>


\* ===================================================================
\* Properties of the retry loop inside the pool
\* ===================================================================

\* C24: while a chunk sleeps between two attempts, no other chunk is in
\* transcribe_chunk, and a queued chunk leaves the queue only when every
\* chunk submitted before it has returned or raised: all attempts of a chunk
\* are over before the first attempt of any chunk submitted after it.
C24_BackoffBlocksWorker ==
    [][\A i \in ChunkIds :
          /\ (task[i] = "sleeping"
                 => \A j \in ChunkIds \ {i} :
                       /\ task[j] \notin {"ready", "calling", "sleeping"}
                       /\ task'[j] \notin {"ready", "calling", "sleeping"})
          /\ \A j \in ChunkIds :
                (j > i /\ task[j] = "queued" /\ task'[j] # "queued")
                    => task[i] \in Finished
      ]_vars

\* chunk 0 sleeps after its second failed attempt while chunk 1 is still in
\* the queue of the executor
C24_Witness ==
    /\ task[0] = "sleeping"
    /\ attempt[0] = 1
    /\ task[1] = "queued"
    /\ queue = <<1>>

\* C28: in transcribe_chunks every chunk has been submitted before the first
\* result is collected, and when the collection loop has raised, the
\* exception reaches the caller only after every submitted chunk has run to
\* completion (returned or raised): no queued chunk is cancelled.
C28_FailureDrainsPool ==
    /\ (pc \in {"collect", "shutdown"} \/ yielded # {})
           => /\ submitted = Cardinality(chunks_dict)
              /\ \A idx \in chunks_dict : task[idx] # "none"
    /\ (pc = "raised" /\ Cardinality(chunks_dict) > 1)
           => /\ queue = <<>>
              /\ \A idx \in chunks_dict : task[idx] \in Finished

\* chunk 0 failed and was the only future collected; chunk 1, queued behind
\* it, has nevertheless returned when the exception reaches the caller
C28_Witness ==
    /\ pc = "raised"
    /\ task[0] = "raised_backend"
    /\ yielded = {0}
    /\ task[1] = "returned"
    /\ ret[1] # <<>>

\* C29: a step in which the backend call of a chunk returns a response never
\* leads to a sleep or to the backend exception: whatever the response (no
\* fenced block, unparseable JSON, no valid entry, valid entries), it ends
\* transcribe_chunk for that chunk at once, with the entries or with the
\* exception of safe_extract_json, and gives the worker back; a chunk that
\* has returned or raised is never called again.
C29_ResponseEndsRetries ==
    [][\A idx \in ChunkIds :
          /\ (task[idx] = "calling" /\ task'[idx] \notin {"calling", "returned", "raised_parse"})
                 => \A content \in Contents : ~ ModelReturns(idx, content)
          /\ (task[idx] = "calling" /\ task'[idx] \in {"returned", "raised_parse"})
                 => /\ attempt'[idx] = 0
                    /\ \A w \in Workers : worker'[w] # idx
          /\ (task[idx] \in {"returned", "raised_parse"} => task'[idx] = task[idx])
          /\ (task'[idx] = "raised_parse" /\ task[idx] # "raised_parse"
                 => task[idx] = "calling")
      ]_vars

\* a response of chunk 0 could not be used and the run has raised; chunk 1
\* went on to return entries
C29_Witness ==
    /\ pc = "raised"
    /\ task[0] = "raised_parse"
    /\ task[1] = "returned"

\* ===================================================================
\* Properties of the annotations loop: starts
\* ===================================================================

\* C30: every annotation's start is the start of its word in seconds,
\* whether or not it exceeds audio_duration; a word whose start exceeds
\* audio_duration is still emitted, with an end that is less than its start.
C30_StartNeverClamped ==
    fn_pc = "returned" =>
        /\ Len(fn_result) = Len(fn_args.all_words)
        /\ \A k \in 1..Len(fn_result) :
             LET start_seconds == parse_time_parts(fn_args.all_words[k].start)
             IN  /\ PreciseSeconds(fn_result[k].start) = start_seconds
                 /\ start_seconds > fn_args.audio_duration
                       => /\ PreciseSeconds(fn_result[k].end) <= fn_args.audio_duration
                          /\ PreciseSeconds(fn_result[k].end)
                                < PreciseSeconds(fn_result[k].start)

\* a word from 120.0 s to 120.5 s of a 118.0 s asset was emitted with start
\* "0:02:00.000000" and end "0:01:58.000000"
C30_Witness ==
    /\ fn_pc = "returned"
    /\ fn_args.audio_duration = 118 * UnitsPerSecond
    /\ Len(fn_args.all_words) >= 1
    /\ fn_args.all_words[1].start = <<2, 0>>
    /\ fn_args.all_words[1].end = <<2, 500>>
    /\ fn_result[1].start = <<0, 2, 0>>
    /\ fn_result[1].end = <<0, 1, 58 * UnitsPerSecond>>

\* ===================================================================
\* End to end: from the chunks' entries to the record
\* ===================================================================
\* number of entries returned by the chunks below idx
RECURSIVE EntriesBefore(_)
EntriesBefore(idx) ==
    IF idx = 0 THEN 0 ELSE EntriesBefore(idx - 1) + Len(ret[idx - 1])

\* the entries a chunk returned are in non-decreasing start order and start
\* inside the chunk
ChronologicalChunk(idx) ==
    /\ \A k \in 1..Len(ret[idx]) :
          timestamp_to_seconds(ret[idx][k].start) < AUDIO_CHUNKING_OFFSET * UnitsPerSecond
    /\ \A k \in 1..(Len(ret[idx]) - 1) :
          timestamp_to_seconds(ret[idx][k].start) <= timestamp_to_seconds(ret[idx][k + 1].start)

C22_FailingRunExitsNonZero ==
    (pc = "exited" /\ traceback_printed) => exit_status # 0

\* ===================================================================
\* retry_with_backoff called on its own
\* ===================================================================
\* defaults of retry_with_backoff, in seconds
base_delay == 15
max_delay == 300

\* a backoff that doubles before the first wait
backoff_delay_doubled_first(attempt_no) ==
    Min({max_delay * UnitsPerSecond, base_delay * UnitsPerSecond * (2 ^ (attempt_no + 1))})

\* delay = min(max_delay, base_delay * (2 ** attempt))
backoff_delay(attempt_no) ==
    Min({max_delay * UnitsPerSecond, base_delay * UnitsPerSecond * (2 ^ attempt_no)})

\* values random.uniform(0, delay * 0.1) may return: both ends, the smallest
\* step above 0, the middle
Jitters(delay) == {0, 1, delay \div 20, delay \div 10}

\* fn_args: the loop variable; fn_result: the time.sleep calls made so far
InitRetry ==
    /\ PipelineUnused
    /\ StorageUnused
    /\ fn_pc = "calling"
    /\ fn_args = [attempt |-> 0]
    /\ fn_result = [slept |-> <<>>]

\* func(*args, **kwargs) returns: retry_with_backoff returns its value
FuncReturns ==
    /\ fn_pc = "calling"
    /\ fn_pc' = "returned"
    /\ UNCHANGED <<fn_args, fn_result, pipeline_vars, storage_vars>>

\* func raises: the last attempt re-raises, any other computes delay and
\* jitter and enters time.sleep(total_delay)
FuncRaises ==
    /\ fn_pc = "calling"
    /\ IF fn_args.attempt = max_retries - 1
       THEN /\ fn_pc' = "raised"
            /\ UNCHANGED fn_result
       ELSE \E jitter \in Jitters(backoff_delay(fn_args.attempt)) :
               LET total_delay == backoff_delay(fn_args.attempt) + jitter
               IN  /\ fn_result' = [slept |-> Append(fn_result.slept, total_delay)]
                   /\ fn_pc' = "sleeping"
    /\ UNCHANGED <<fn_args, pipeline_vars, storage_vars>>

\* time.sleep returns: next value of the loop variable
SleepReturns ==
    /\ fn_pc = "sleeping"
    /\ fn_args' = [attempt |-> fn_args.attempt + 1]
    /\ fn_pc' = "calling"
    /\ UNCHANGED <<fn_result, pipeline_vars, storage_vars>>

NextRetry == FuncReturns \/ FuncRaises \/ SleepReturns

SpecRetry == InitRetry /\ [][NextRetry]_vars

\* C23: the k-th wait (made after the k-th failed attempt, k = 1..4) lasts
\* between d and 1.1 * d seconds, d = min(300, 15 * 2^(k-1)), that is 15, 30,
\* 60, 120 s, and never more than 330 s; there are exactly as many waits as
\* failed attempts that were not the last: none after the attempt that
\* returned, none after the fifth failure.
C23_BackoffWaits ==
    LET slept == fn_result.slept
        d(k) == Min({300, 15 * (2 ^ (k - 1))}) * UnitsPerSecond
    IN  /\ Len(slept) <= max_retries - 1
        /\ \A k \in 1..Len(slept) :
              /\ d(k) \in {15 * UnitsPerSecond, 30 * UnitsPerSecond,
                           60 * UnitsPerSecond, 120 * UnitsPerSecond}
              /\ d(k) <= slept[k]
              /\ 10 * slept[k] <= 11 * d(k)
              /\ slept[k] <= 330 * UnitsPerSecond
        /\ Len(slept) = fn_args.attempt + (IF fn_pc = "sleeping" THEN 1 ELSE 0)
        /\ fn_pc = "raised" => fn_args.attempt = max_retries - 1

\* the fifth attempt failed after waits of 16.5 s, 33 s, 66 s and 132 s, each
\* with the largest jitter
C23_Witness ==
    /\ fn_pc = "raised"
    /\ fn_result.slept = <<16 * UnitsPerSecond + 500 * UnitsPerMs, 33 * UnitsPerSecond,
                           66 * UnitsPerSecond, 132 * UnitsPerSecond>>

\* ===================================================================
\* StorageManager.list_transcriptions: the status of a listed document
\* ===================================================================
UserIds == {"u1", "u2"}

\* manual_status values: the six the code names, and one it does not
ManualStatuses ==
    {"done", "pending", "flagged", "completed", "validating", "passed", "archived"}

\* any(entry.get('action') == 'reassign' for entry in review_history)
has_reassign_action(review_history) ==
    \E k \in 1..Len(review_history) : review_history[k] = "reassign"

\* users_collection.find_one({'_id': ObjectId(doc_user_id)}).get('is_admin')
\* users: the ids of the users collection whose is_admin is true
is_last_saver_admin(doc_user_id, users) ==
    doc_user_id # Missing /\ doc_user_id \in users

\* lines 1419-1491: the status of a document of the main collection
computed_status(doc, users) ==
    IF doc.is_flagged THEN "flagged"
    ELSE IF doc.manual_status \in {"validating", "passed"} THEN doc.manual_status
    ELSE IF doc.manual_status = "completed" THEN "completed"
    ELSE IF doc.assigned_user_id # Missing
    THEN IF doc.manual_status \in {"validating", "passed", "completed"} THEN doc.manual_status
         ELSE IF doc.manual_status \in {"done", "pending", "flagged"} THEN doc.manual_status
         ELSE IF /\ has_reassign_action(doc.review_history)
                 /\ doc.user_id # Missing
                 /\ doc.assigned_user_id # doc.user_id
                 /\ ~ is_last_saver_admin(doc.user_id, users)
              THEN "assigned_for_review"
         ELSE IF doc.user_id # Missing /\ doc.assigned_user_id = doc.user_id THEN "done"
         ELSE "pending"
    ELSE IF doc.manual_status \in {"done", "pending", "flagged", "completed", "validating", "passed"}
    THEN doc.manual_status
    ELSE "pending"

\* lines 1603-1635: the status of a document of telugu_transcriptions
computed_status_telugu(doc, users) ==
    IF doc.is_flagged THEN "flagged"
    ELSE IF doc.manual_status \in {"validating", "passed"} THEN doc.manual_status
    ELSE IF doc.manual_status = "completed" THEN "completed"
    ELSE IF doc.assigned_user_id # Missing
    THEN IF /\ has_reassign_action(doc.review_history)
            /\ doc.user_id # Missing
            /\ doc.assigned_user_id # doc.user_id
            /\ ~ is_last_saver_admin(doc.user_id, users)
         THEN "assigned_for_review"
         ELSE IF doc.manual_status \in {"done", "pending", "flagged"} THEN doc.manual_status
         ELSE IF doc.user_id # Missing /\ doc.assigned_user_id = doc.user_id THEN "done"
         ELSE "pending"
    ELSE IF doc.manual_status \in {"done", "pending", "flagged", "completed", "validating", "passed"}
    THEN doc.manual_status
    ELSE "pending"

\* the same document stored once in each collection, and the admins of the
\* users collection
InitStatus ==
    /\ PipelineUnused
    /\ StorageUnused
    /\ fn_pc = "called"
    /\ \E is_flagged \in BOOLEAN,
          manual_status \in ManualStatuses \cup {Missing},
          assigned_user_id \in {"u1", Missing},
          user_id \in UserIds \cup {Missing},
          review_history \in {<<>>, <<"assign">>, <<"assign", "reassign">>},
          users \in SUBSET UserIds :
          fn_args = [doc |-> [is_flagged |-> is_flagged,
                              manual_status |-> manual_status,
                              assigned_user_id |-> assigned_user_id,
                              user_id |-> user_id,
                              review_history |-> review_history],
                     users |-> users]
    /\ fn_result = <<>>

\* list_transcriptions: one pass over cursor_main, one over cursor_telugu
ListTranscriptions ==
    /\ fn_pc = "called"
    /\ fn_result' = [main |-> computed_status(fn_args.doc, fn_args.users),
                     telugu |-> computed_status_telugu(fn_args.doc, fn_args.users)]
    /\ fn_pc' = "returned"
    /\ UNCHANGED <<fn_args, pipeline_vars, storage_vars>>

SpecStatus == InitStatus /\ [][ListTranscriptions]_vars

\* C25: the status listed for a document is the same in both collections.
C25_SameStatusInBothCollections ==
    fn_pc = "returned" => fn_result.main = fn_result.telugu

\* ===================================================================
\* StorageManager: access to a stored transcription
\* ===================================================================
\* The StorageManager is connected (self.collection is set) and holds one
\* transcription, whose _id is "d1"; of the document the fields
\* assigned_user_id, manual_status, done_at and completed_at are modelled.
DocumentIds == {"d1", "d2"}
StoredId == "d1"

\* user_id arguments: absent (None), empty, and two users
CallerIds == {Missing, ""} \cup UserIds

\* "if user_id:" on an Optional[str]
truthy(value) == value \notin {Missing, ""}

\* lines 501-508 and 2341-2345: "if not is_admin and user_id:" followed by
\* "if assigned_user_id is None or str(assigned_user_id) != str(user_id)"
access_denied(user_id, is_admin, assigned_user_id) ==
    /\ ~ is_admin
    /\ truthy(user_id)
    /\ (assigned_user_id = Missing \/ assigned_user_id # user_id)

\* what a get_* call answers for the arguments it was given
get_response(call, document_id, user_id, is_admin) ==
    [call |-> call, user_id |-> user_id, is_admin |-> is_admin,
     found |-> document_id = StoredId,
     assigned_user_id |-> document.assigned_user_id,
     returned |-> /\ document_id = StoredId
                  /\ ~ access_denied(user_id, is_admin, document.assigned_user_id)]

\* the connected StorageManager before any call
InitStorage ==
    /\ PipelineUnused
    /\ fn_pc = "unused"
    /\ fn_args = <<>>
    /\ fn_result = <<>>
    /\ StorageUnused

\* assign_transcription(document_id, assigned_user_id): $set of
\* assigned_user_id on the document found (review_round, review_history and
\* updated_at are not modelled)
AssignTranscription(document_id, assigned_user_id) ==
    /\ document_id = StoredId
    /\ document' = [document EXCEPT !.assigned_user_id = assigned_user_id]
    /\ UNCHANGED <<requests, now, response, pipeline_vars, fn_pc, fn_args, fn_result>>

\* unassign_transcription(document_id): $set assigned_user_id to None
UnassignTranscription(document_id) ==
    /\ document_id = StoredId
    /\ document' = [document EXCEPT !.assigned_user_id = Missing]
    /\ UNCHANGED <<requests, now, response, pipeline_vars, fn_pc, fn_args, fn_result>>

\* get_transcription(document_id, user_id, is_admin)
GetTranscription(document_id, user_id, is_admin) ==
    /\ response' = get_response("get_transcription", document_id, user_id, is_admin)
    /\ UNCHANGED <<document, requests, now, pipeline_vars, fn_pc, fn_args, fn_result>>

\* get_version_history(document_id, user_id, is_admin)
GetVersionHistory(document_id, user_id, is_admin) ==
    /\ response' = get_response("get_version_history", document_id, user_id, is_admin)
    /\ UNCHANGED <<document, requests, now, pipeline_vars, fn_pc, fn_args, fn_result>>

NextAccess ==
    \/ \E document_id \in DocumentIds, user_id \in UserIds :
          AssignTranscription(document_id, user_id)
    \/ \E document_id \in DocumentIds : UnassignTranscription(document_id)
    \/ \E document_id \in DocumentIds, user_id \in CallerIds, is_admin \in BOOLEAN :
          GetTranscription(document_id, user_id, is_admin)
    \/ \E document_id \in DocumentIds, user_id \in CallerIds, is_admin \in BOOLEAN :
          GetVersionHistory(document_id, user_id, is_admin)

SpecAccess == InitStorage /\ [][NextAccess]_vars

\* C26: a get_transcription or get_version_history call of a non-admin
\* caller returns the document's data only if the document's
\* assigned_user_id is that caller's user_id.
C26_OnlyAssigneeReads ==
    (response.call # "none" /\ response.returned /\ ~ response.is_admin)
        => /\ truthy(response.user_id)
           /\ response.assigned_user_id = response.user_id

\* ===================================================================
\* StorageManager: done_at and completed_at
\* ===================================================================
\* status arguments of update_transcription_status that pass its validation
\* and reach done_at / completed_at
StatusArgs == {"done", "completed", "pending"}

\* "$set": update_fields applied to the document by update_one
set_fields(doc, update_fields) ==
    [key \in DOMAIN doc |->
        IF key \in DOMAIN update_fields THEN update_fields[key] ELSE doc[key]]

\* lines 868-883 and 2243-2259: manual_status, and done_at or completed_at
\* from datetime.now() when the status changes to done / completed and
\* current_doc has no such timestamp
status_update_fields(current_doc, status, timestamp) ==
    IF status = "done" /\ current_doc.manual_status # "done" /\ current_doc.done_at = NoTime
    THEN [manual_status |-> status, done_at |-> timestamp]
    ELSE IF /\ status = "completed"
            /\ current_doc.manual_status # "completed"
            /\ current_doc.completed_at = NoTime
    THEN [manual_status |-> status, completed_at |-> timestamp]
    ELSE [manual_status |-> status]

\* update_transcription_status(document_id, status) up to update_one:
\* find_one reads current_doc, update_fields is prepared from it
StatusFindOne(r, status) ==
    /\ requests[r].pc = "idle"
    /\ now < MaxCalls
    /\ now' = now + 1
    /\ requests' = [requests EXCEPT ![r] =
                       [pc |-> "status_update_one",
                        update_fields |-> status_update_fields(document, status, now + 1)]]
    /\ UNCHANGED <<document, response, pipeline_vars, fn_pc, fn_args, fn_result>>

\* update_transcription_status: target_collection.update_one and return
StatusUpdateOne(r) ==
    /\ requests[r].pc = "status_update_one"
    /\ document' = set_fields(document, requests[r].update_fields)
    /\ requests' = [requests EXCEPT ![r] = [pc |-> "idle", update_fields |-> <<>>]]
    /\ UNCHANGED <<now, response, pipeline_vars, fn_pc, fn_args, fn_result>>

\* update_transcription(document_id, transcription_data, user_id, status, ...)
\* up to update_one: new_status = status if status else 'done'
\* (transcription_data, user_id, review_round and the version history are
\* not modelled)
TranscriptionFindOne(r, status) ==
    /\ requests[r].pc = "idle"
    /\ now < MaxCalls
    /\ now' = now + 1
    /\ LET new_status == IF truthy(status) THEN status ELSE "done"
       IN  requests' = [requests EXCEPT ![r] =
                           [pc |-> "transcription_update_one",
                            update_fields |-> status_update_fields(document, new_status, now + 1)]]
    /\ UNCHANGED <<document, response, pipeline_vars, fn_pc, fn_args, fn_result>>

\* update_transcription: target_collection.update_one and return
TranscriptionUpdateOne(r) ==
    /\ requests[r].pc = "transcription_update_one"
    /\ document' = set_fields(document, requests[r].update_fields)
    /\ requests' = [requests EXCEPT ![r] = [pc |-> "idle", update_fields |-> <<>>]]
    /\ UNCHANGED <<now, response, pipeline_vars, fn_pc, fn_args, fn_result>>

NextTimestamps ==
    \/ \E r \in RequestIds, status \in StatusArgs : StatusFindOne(r, status)
    \/ \E r \in RequestIds : StatusUpdateOne(r)
    \/ \E r \in RequestIds, status \in StatusArgs \cup {Missing} : TranscriptionFindOne(r, status)
    \/ \E r \in RequestIds : TranscriptionUpdateOne(r)

SpecTimestamps == InitStorage /\ [][NextTimestamps]_vars

\* C27: once done_at (completed_at) has a value, no step of an
\* update_transcription_status or update_transcription call changes it.
C27_TimestampsSetOnce ==
    [][/\ (document.done_at # NoTime => document'.done_at = document.done_at)
       /\ (document.completed_at # NoTime => document'.completed_at = document.completed_at)
      ]_vars

====
